---- MODULE Spec2Model ----
(***************************************************************************)
(* Service/event runtime core of kraken-os: the service registry, the      *)
(* event bus, the four-class priority queue, the event_task dispatcher,    *)
(* the resource quota, the subscription tracker, the watchdog, the memory  *)
(* pool, the dependency graph, the dynamic loader, the app context         *)
(* reference counts and the request/response table.                        *)
(*                                                                         *)
(* Granularity.  A step is one critical section of the global system lock  *)
(* or one FreeRTOS queue/mutex call; the code between two such points      *)
(* touches only task-local data.  A timed take of a mutex (system_lock,    *)
(* pq->mutex, a pool mutex) can expire when the holder is kept from        *)
(* running for the whole timeout; tasks outside this model (every service  *)
(* calls the registry under the system lock) are among the holders, so     *)
(* the expiry of the system lock and of a pool mutex is a choice of the    *)
(* environment.  The calls of the registry, the quota, the tracker, the    *)
(* watchdog API, the dependency graph, the loader and the context table    *)
(* are single steps.  Quota entries carry the event-rate and subscription  *)
(* limits and counters; the data-size check made by post passes, no limit  *)
(* being set for it.                                                       *)
(***************************************************************************)
EXTENDS Integers, Sequences, FiniteSets, TLC

(* ------------------------------------------------------------------ *)
(* Bounds (Kconfig values and scenario sizes)                           *)
(* ------------------------------------------------------------------ *)
MaxServices == 2
MaxEventTypes == 2
MaxSubscribers == 2
LowQueueSize == 2
NormalQueueSize == 1
HighQueueSize == 1
MaxPosts == 2
MaxEventsPerSec == 1
WdTimeout == 2
MaxRestarts == 2
MaxDependencies == 2
PoolBlocks == 2
MaxHeap == 1
MaxPoolCalls == 4
MaxRegions == 6
MaxRefs == 2
MaxPending == 2
MaxRequests == 2

MAX_TRACKED_SUBSCRIPTIONS == 32
SYSTEM_SERVICE_MAX_NAME_LEN == 32

(* ------------------------------------------------------------------ *)
(* Program constants                                                    *)
(* ------------------------------------------------------------------ *)
SYSTEM_EVENT_PRIORITY_LOW == 0
SYSTEM_EVENT_PRIORITY_NORMAL == 1
SYSTEM_EVENT_PRIORITY_HIGH == 2
SYSTEM_EVENT_PRIORITY_CRITICAL == 3

Priorities == SYSTEM_EVENT_PRIORITY_LOW .. SYSTEM_EVENT_PRIORITY_CRITICAL

priority_order ==
    << SYSTEM_EVENT_PRIORITY_CRITICAL, SYSTEM_EVENT_PRIORITY_HIGH,
       SYSTEM_EVENT_PRIORITY_NORMAL, SYSTEM_EVENT_PRIORITY_LOW >>

queue_sizes ==
    [p \in Priorities |->
        IF p = SYSTEM_EVENT_PRIORITY_LOW THEN LowQueueSize
        ELSE IF p = SYSTEM_EVENT_PRIORITY_NORMAL THEN NormalQueueSize
        ELSE HighQueueSize]

ServiceIds == 0 .. (MaxServices - 1)
EventTypeIds == 0 .. (MaxEventTypes - 1)
SubSlots == 0 .. (MaxSubscribers - 1)
EventIds == 1 .. (LowQueueSize + MaxPosts)

ServiceNames == {"sensor", "display"}
EventNames == {"temp", "alarm"}

Dispatchers == {"et1", "et2"}
Posters == {"p1", "p2"}
NoTask == "none"
WdTask == "wd"

\* time enough for MaxRestarts restarts and one more timeout
MaxTime == (MaxRestarts + 1) * (WdTimeout + 1)

\* the services that call system_service_heartbeat every WdTimeout / 2
Heartbeaters == {0}

\* the service_watchdog_config_t values passed to watchdog_register_service
WdConfigs ==
    { [timeout_ms |-> WdTimeout, auto_restart |-> TRUE,
       max_restart_attempts |-> MaxRestarts, is_critical |-> FALSE],
      [timeout_ms |-> WdTimeout, auto_restart |-> FALSE,
       max_restart_attempts |-> 0, is_critical |-> TRUE] }

VARIABLES
    running,                 \* ctx->running
    event_task_handle,       \* ctx->event_task
    services,                \* ctx->services[]
    service_count,           \* ctx->service_count
    event_types,             \* ctx->event_types[]
    event_type_count,        \* ctx->event_type_count
    subscriptions,           \* ctx->subscriptions[]
    subscription_count,      \* ctx->subscription_count
    total_events_posted,     \* ctx->total_events_posted
    sysLock,                 \* holder of ctx->mutex
    queues,                  \* pq->queues[4]
    pqMutex,                 \* holder of pq->mutex
    sequence_counter,        \* pq->sequence_counter
    stats,                   \* pq->stats
    dpc,                     \* control point of each event_task instance
    dev,                     \* its local 'event'
    di,                      \* its loop index i over the subscription table
    dscan,                   \* its index into priority_order inside receive
    dsub,                    \* its locals subscriber_id / handler
    ddone,                   \* history: slots it has invoked for 'event'
    dsnap,                   \* history: slots matching 'event' when its dispatch began
    dtouched,                \* history: slots rewritten since its dispatch began
    ppc,                     \* control point of each posting task
    pev,                     \* its local 'event' / 'event_copy'
    pret,                    \* value returned to it by system_event_post
    psender,                 \* its argument sender_id
    quota,                   \* g_quota_ctx.entries[]
    accepted,                \* history: posts of a principal recorded since the last reset
    trackers,                \* g_trackers[] of app_lifecycle.c
    now,                     \* esp_timer_get_time() / 1000
    svc_heartbeat,           \* ctx->services[].last_heartbeat
    wd,                      \* g_watchdog_ctx.entries[]
    wdStats,                 \* g_watchdog_ctx.stats
    safe_mode,               \* g_watchdog_ctx.safe_mode
    wdRunning,               \* g_watchdog_ctx.running
    wdMutex,                 \* holder of g_watchdog_ctx.mutex
    wpc,                     \* position of watchdog_task
    wi,                      \* its loop index i
    wnow,                    \* its local now
    dep_entries,             \* g_dep_ctx.entries[0 .. entry_count-1]
    dep_call,                \* the last dependencies_* call, its return and its order[]
    dep_marked,              \* history: names dependencies_mark_initialized returned ESP_OK for
    pool_free_list,          \* g_pools[0].free_list (0 is NULL)
    pool_next,               \* block->next of every block of the pool
    pool_stats,              \* g_pools[0].stats
    heap_live,               \* blocks malloc returned and free has not seen
    pool_issued,             \* history: pointers memory_pool_alloc has returned
    pool_call,               \* the last memory_pool_* call
    loaded_app,              \* the loaded_app_t the client passes to the loader
    ldr_heap,                \* regions malloc returned and free has not seen
    ldr_freed,               \* history: times each region was passed to free
    ldr_brk,                 \* history: number of regions malloc has returned
    ldr_made,                \* history: regions the last load allocated
    ldr_call,                \* the last app_loader_* call and its return
    g_contexts,              \* g_contexts[] of app_context_refcount.c
    ctx_call,                \* the last app_context_* call that returned ESP_OK
    g_pending_requests,      \* g_pending_requests[] of request_response.c
    g_next_request_id,       \* g_next_request_id
    rq_pc,                   \* position of the task inside request_send_sync
    rs_pc,                   \* position of each task inside request_send_response
    rq_status,               \* history: what has become of each request id
    frees,                   \* history: times each payload went back to its pool
    seen                     \* history: newest event of each class seen by a principal

vars ==
    << running, event_task_handle, services, service_count, event_types,
       event_type_count, subscriptions, subscription_count,
       total_events_posted, sysLock, queues, pqMutex, sequence_counter,
       stats, dpc, dev, di, dscan, dsub, ddone, dsnap, dtouched, ppc, pev,
       pret, psender, quota, accepted, trackers, now, svc_heartbeat, wd, wdStats,
       safe_mode, wdRunning, wdMutex, wpc, wi, wnow, dep_entries,
       dep_call, dep_marked, pool_free_list, pool_next, pool_stats,
       heap_live, pool_issued, pool_call, loaded_app, ldr_heap, ldr_freed,
       ldr_brk, ldr_made, ldr_call, g_contexts, ctx_call,
       g_pending_requests, g_next_request_id, rq_pc, rs_pc, rq_status,
       frees, seen >>

regVars ==
    << services, service_count, event_types, event_type_count,
       subscriptions, subscription_count >>
pqVars == << queues, pqMutex, sequence_counter, stats >>
dispVars == << dpc, dev, di, dscan, dsub, ddone, dsnap, dtouched >>
ctlVars == << running, event_task_handle, total_events_posted, sysLock >>
postVars == << ppc, pev, pret, psender >>
quotaVars == << quota, accepted >>
wdTask == << wdRunning, wpc >>
wdVars == << now, svc_heartbeat, wd, wdStats, safe_mode, wdMutex, wi, wnow >>
depVars == << dep_entries, dep_call, dep_marked >>
poolVars ==
    << pool_free_list, pool_next, pool_stats, heap_live, pool_issued,
       pool_call >>
ldrVars ==
    << loaded_app, ldr_heap, ldr_freed, ldr_brk, ldr_made, ldr_call >>
refVars == << g_contexts, ctx_call >>
reqVars ==
    << g_pending_requests, g_next_request_id, rq_pc, rs_pc, rq_status >>
appVars == << ldrVars, refVars, reqVars >>
extVars ==
    << quotaVars, trackers, wdTask, wdVars, depVars, poolVars, appVars >>
histVars == << frees, seen >>

(* ------------------------------------------------------------------ *)
(* Values                                                               *)
(* ------------------------------------------------------------------ *)
EmptyService == [registered |-> FALSE, name |-> "", state |-> "UNREGISTERED"]
EmptyEventType == [registered |-> FALSE, event_name |-> ""]
EmptySubscription == [active |-> FALSE, service_id |-> 0, event_type |-> 0]
\* 'fresh' is history: the event was enqueued while no dispatcher held an
\* event, and no dispatcher has taken an event since
NoEvent ==
    [id |-> 0, event_type |-> 0, priority |-> 0, data |-> 0,
     sequence_number |-> 0, fresh |-> FALSE]
NoSub == [slot |-> 0, subscriber_id |-> 0, stale |-> FALSE]
\* a slot of g_quota_ctx.entries[] after quota_init
EmptyQuota ==
    [active |-> FALSE, service_id |-> 0, max_events_per_sec |-> 0,
     max_subscriptions |-> 0, events_this_sec |-> 0,
     active_subscriptions |-> 0]

\* find_entry(service_id): the slots holding an active entry of the id
find_entry(id) ==
    {i \in ServiceIds : quota[i].active /\ quota[i].service_id = id}

\* quota_init has run and quota_set was called for nobody
NoQuota ==
    /\ quota = [i \in ServiceIds |-> EmptyQuota]
    /\ accepted = [s \in ServiceIds |-> 0]

\* a slot of g_watchdog_ctx.entries[] after watchdog_init
EmptyEntry ==
    [active |-> FALSE, service_id |-> 0,
     config |-> [timeout_ms |-> 0, auto_restart |-> FALSE,
                 max_restart_attempts |-> 0, is_critical |-> FALSE],
     last_heartbeat |-> 0, restart_attempts |-> 0, timeout_detected |-> FALSE]

\* g_trackers[] is zero-initialised
NoTrackers ==
    trackers = [i \in ServiceIds |-> [service_id |-> 0, event_types |-> << >>]]

\* watchdog_init has run and nobody is monitored
NoWatchdog ==
    /\ now = 0
    /\ svc_heartbeat = [s \in ServiceIds |-> 0]
    /\ wd = [i \in ServiceIds |-> EmptyEntry]
    /\ wdStats = [total_timeouts |-> 0, total_restarts |-> 0,
                  failed_restarts |-> 0, critical_failures |-> 0]
    /\ safe_mode = FALSE
    /\ wdMutex = NoTask
    /\ wi = 0
    /\ wnow = 0

NeverSeen == [p \in Priorities |-> 0]

\* the names passed to system_service_register and to
\* system_event_register_type by callers that do not keep to short names:
\* an empty one and one of SYSTEM_SERVICE_MAX_NAME_LEN characters or more
ServiceNameArgs == {"sensor", "", "environment_sensor_service_no_0001"}
EventNameArgs == {"temp", "temperature_threshold_alarm_raised"}

\* the names passed to the dependencies_* calls
DepNames == ServiceNames \cup {"logger"}

NoCall ==
    [op |-> "none", name |-> "", depends_on |-> "", ret |-> "NONE",
     order |-> << >>, max_count |-> 0]

\* dependencies_init has run
NoDependencies ==
    /\ dep_entries = << >>
    /\ dep_call = NoCall
    /\ dep_marked = {}

\* the blocks of the pool, named by their position in pool_memory, and the
\* blocks malloc can hand out
PoolBlockIds == 1 .. PoolBlocks
HeapIds == (PoolBlocks + 1) .. (PoolBlocks + MaxHeap)

\* pool_init_single: every block is pushed on the free list in address
\* order, so the last block is the head
FreshPools ==
    /\ pool_free_list = PoolBlocks
    /\ pool_next = [b \in PoolBlockIds |-> b - 1]
    /\ pool_stats = [pool_size |-> PoolBlocks, blocks_used |-> 0,
                     blocks_free |-> PoolBlocks, total_allocations |-> 0,
                     total_frees |-> 0, allocation_failures |-> 0,
                     high_water_mark |-> 0]
    /\ heap_live = {}
    /\ pool_issued = {}
    /\ pool_call = [op |-> "none", ptr |-> 0]

Regions == 1 .. MaxRegions

\* memset(app, 0, sizeof(loaded_app_t))
ZeroApp ==
    [code_segment |-> 0, data_segment |-> 0, bss_segment |-> 0,
     code_size |-> 0, data_size |-> 0, bss_size |-> 0, entry_point |-> 0,
     mmap_handle |-> 0, code_in_flash |-> FALSE, psram_data_buf |-> 0]

\* a zeroed handle and an untouched heap
NoApp ==
    /\ loaded_app = ZeroApp
    /\ ldr_heap = {}
    /\ ldr_freed = [r \in Regions |-> 0]
    /\ ldr_brk = 0
    /\ ldr_made = {}
    /\ ldr_call = [op |-> "none", ret |-> "NONE", released |-> {},
                   unmapped |-> 0,
                   prev |-> [op |-> "none", ret |-> "NONE"]]

Min(S) == CHOOSE x \in S : \A y \in S : x <= y

\* strncpy(dst, src, n) followed by dst[n] = '\0'
strncpy(src, n) == IF Len(src) > n THEN SubSeq(src, 1, n) ELSE src

\* g_contexts as the loader zero-initialises it
NoContexts ==
    /\ g_contexts = [i \in ServiceIds |->
                       [service_id |-> 0, refcount |-> 0, valid |-> FALSE,
                        marked_for_deletion |-> FALSE]]
    /\ ctx_call = [op |-> "none", service_id |-> 0]

ReqSlots == 1 .. MaxPending
RequestIds == 1 .. MaxRequests
Responders == {"rs1", "rs2"}

EmptyRequest ==
    [active |-> FALSE, request_id |-> 0, response_sem |-> "NULL",
     callback |-> FALSE, response_size |-> 0]

\* request_response.c before the first request
NoRequests ==
    /\ g_pending_requests = [i \in ReqSlots |-> EmptyRequest]
    /\ g_next_request_id = 1
    /\ rq_pc = [pc |-> "idle", slot |-> 0, id |-> 0]
    /\ rs_pc = [p \in Responders |->
                  [pc |-> "idle", slot |-> 0, id |-> 0, late |-> FALSE]]
    /\ rq_status = [r \in RequestIds |-> "none"]

(* ------------------------------------------------------------------ *)
(* Initial state: after system_service_init, before start              *)
(* ------------------------------------------------------------------ *)
Init ==
    /\ running = FALSE
    /\ event_task_handle = NoTask
    /\ services = [s \in ServiceIds |-> EmptyService]
    /\ service_count = 0
    /\ event_types = [t \in EventTypeIds |-> EmptyEventType]
    /\ event_type_count = 0
    /\ subscriptions = [i \in SubSlots |-> EmptySubscription]
    /\ subscription_count = 0
    /\ total_events_posted = 0
    /\ sysLock = NoTask
    /\ queues = [p \in Priorities |-> << >>]
    /\ pqMutex = NoTask
    /\ sequence_counter = 0
    /\ stats = [high_priority_overflows |-> 0,
                normal_priority_overflows |-> 0,
                low_priority_overflows |-> 0,
                low_priority_drops |-> 0]
    /\ dpc = [d \in Dispatchers |-> "none"]
    /\ dev = [d \in Dispatchers |-> NoEvent]
    /\ di = [d \in Dispatchers |-> 0]
    /\ dscan = [d \in Dispatchers |-> 1]
    /\ dsub = [d \in Dispatchers |-> NoSub]
    /\ ddone = [d \in Dispatchers |-> {}]
    /\ dsnap = [d \in Dispatchers |-> {}]
    /\ dtouched = [d \in Dispatchers |-> {}]
    /\ ppc = [p \in Posters |-> "idle"]
    /\ pev = [p \in Posters |-> NoEvent]
    /\ pret = [p \in Posters |-> "NONE"]
    /\ psender = [p \in Posters |-> 0]
    /\ frees = [e \in EventIds |-> 0]
    /\ seen = [s \in ServiceIds |-> NeverSeen]
    /\ NoQuota
    /\ NoTrackers
    /\ NoWatchdog
    /\ NoDependencies
    /\ FreshPools
    /\ NoApp
    /\ NoContexts
    /\ NoRequests
    /\ wdRunning = FALSE
    /\ wpc = "none"

(* ------------------------------------------------------------------ *)
(* Service registry (service_manager.c)                                 *)
(* ------------------------------------------------------------------ *)
\* the return value of system_service_register(service_name, ctx, &id) on
\* the registry sv, cnt, the id it writes and the registry it leaves
register_result(sv, cnt, service_name) ==
    LET free == {s \in ServiceIds : ~sv[s].registered}
    IN  IF cnt >= MaxServices
        THEN [ret |-> "ESP_ERR_NO_MEM", id |-> -1, services |-> sv,
              service_count |-> cnt]
        ELSE IF \E s \in ServiceIds :
                   sv[s].registered /\ sv[s].name = service_name
        THEN [ret |-> "ESP_ERR_INVALID_STATE", id |-> -1, services |-> sv,
              service_count |-> cnt]
        ELSE IF free = {}
        THEN [ret |-> "ESP_ERR_NO_MEM", id |-> -1, services |-> sv,
              service_count |-> cnt]
        ELSE [ret |-> "ESP_OK", id |-> Min(free),
              services |-> [sv EXCEPT ![Min(free)] =
                              [registered |-> TRUE,
                               name |-> strncpy(service_name,
                                          SYSTEM_SERVICE_MAX_NAME_LEN - 1),
                               state |-> "REGISTERED"]],
              service_count |-> cnt + 1]

system_service_register(name) ==
    /\ sysLock = NoTask
    /\ LET r == register_result(services, service_count, name)
       IN  /\ r.ret = "ESP_OK"
           /\ services' = r.services
           /\ service_count' = r.service_count
    /\ UNCHANGED << event_types, event_type_count, subscriptions,
                    subscription_count >>
    /\ UNCHANGED << ctlVars, pqVars, dispVars, postVars, histVars >>
    /\ UNCHANGED extVars

\* the values of system_service_state_t
ServiceStates ==
    {"UNREGISTERED", "REGISTERED", "RUNNING", "PAUSED", "STOPPING", "ERROR"}

\* system_service_set_state(service_id, state) on a registered service
system_service_set_state(id, state) ==
    /\ sysLock = NoTask
    /\ services[id].registered
    /\ services' = [services EXCEPT ![id].state = state]
    /\ UNCHANGED << service_count, event_types, event_type_count,
                    subscriptions, subscription_count >>
    /\ UNCHANGED << ctlVars, pqVars, dispVars, postVars, histVars >>
    /\ UNCHANGED extVars

OwnedSlotsNone(id) == {}

\* the subscriptions system_service_unregister(id) deactivates
OwnedSlots(id) ==
    {i \in SubSlots : subscriptions[i].active /\ subscriptions[i].service_id = id}

InDispatch(d) == dpc[d] \in {"loop", "call", "relock"}

\* history: the slots in S are rewritten while d is inside a dispatch
Touch(S) ==
    [d \in Dispatchers |->
        IF InDispatch(d) THEN dtouched[d] \cup S ELSE dtouched[d]]

system_service_unregister(id) ==
    /\ sysLock = NoTask
    /\ services[id].registered
    /\ subscriptions' = [i \in SubSlots |->
                            IF i \in OwnedSlots(id)
                            THEN [subscriptions[i] EXCEPT !.active = FALSE]
                            ELSE subscriptions[i]]
    /\ subscription_count' = subscription_count - Cardinality(OwnedSlots(id))
    /\ services' = [services EXCEPT ![id] = EmptyService]
    /\ service_count' = service_count - 1
       \* history: a handler of id copied by a dispatcher but not yet
       \* invoked now belongs to an unregistered principal
    /\ dsub' = [d \in Dispatchers |->
                   IF dpc[d] = "call" /\ dsub[d].subscriber_id = id
                   THEN [dsub[d] EXCEPT !.stale = TRUE] ELSE dsub[d]]
    /\ dtouched' = Touch(OwnedSlots(id))
    /\ seen' = [seen EXCEPT ![id] = NeverSeen]
    /\ UNCHANGED << event_types, event_type_count >>
    /\ UNCHANGED << ctlVars, pqVars, dpc, dev, di, dscan, ddone, dsnap,
                    postVars, frees >>
    /\ UNCHANGED extVars

(* ------------------------------------------------------------------ *)
(* Subscription tracker (app_lifecycle.c)                               *)
(* ------------------------------------------------------------------ *)
\* subscription_count of a tracker is the length of its event_types
find_tracker(id) ==
    {i \in ServiceIds :
        trackers[i].service_id = id /\ Len(trackers[i].event_types) > 0}

\* the slots get_or_create_tracker may return: the tracker of id or, when
\* there is none, the first unused slot
get_or_create_tracker(id) ==
    IF find_tracker(id) # {} THEN {Min(find_tracker(id))}
    ELSE LET free == {i \in ServiceIds : Len(trackers[i].event_types) = 0}
         IN  IF free # {} THEN {Min(free)} ELSE {}

InSeq(q, x) == \E k \in 1 .. Len(q) : q[k] = x

\* q without its first occurrence of x
RECURSIVE RemoveFirst(_, _)
RemoveFirst(q, x) ==
    IF q = << >> THEN << >>
    ELSE IF Head(q) = x THEN Tail(q)
    ELSE << Head(q) >> \o RemoveFirst(Tail(q), x)

\* a tracker with the list q; the service_id of a tracker whose list is
\* empty is never read again and is kept at 0
Tracker(id, q) ==
    [service_id |-> IF q = << >> THEN 0 ELSE id, event_types |-> q]

\* g_trackers after app_lifecycle_track_subscription(id, type)
app_lifecycle_track_subscription(id, type) ==
    IF get_or_create_tracker(id) = {} THEN trackers
    ELSE LET i == Min(get_or_create_tracker(id))
         IN  IF find_tracker(id) # {} /\ InSeq(trackers[i].event_types, type)
             THEN trackers
             ELSE IF Len(trackers[i].event_types) >= MAX_TRACKED_SUBSCRIPTIONS
             THEN trackers
             ELSE [trackers EXCEPT
                     ![i] = Tracker(id, Append(@.event_types, type))]

\* g_trackers after app_lifecycle_untrack_subscription(id, type)
app_lifecycle_untrack_subscription(id, type) ==
    IF find_tracker(id) = {} THEN trackers
    ELSE [trackers EXCEPT ![Min(find_tracker(id))] =
                              Tracker(id, RemoveFirst(@.event_types, type))]

(* ------------------------------------------------------------------ *)
(* Event bus: types and subscriptions (event_bus.c)                     *)
(* ------------------------------------------------------------------ *)
\* the return value of system_event_register_type(event_name, &type) on the
\* table et, cnt, the id it writes and the table it leaves.  The field
\* event_type of a descriptor is the index of its slot.
register_type_result(et, cnt, event_name) ==
    LET found == {t \in EventTypeIds :
                     et[t].registered /\ et[t].event_name = event_name}
        free == {t \in EventTypeIds : ~et[t].registered}
    IN  IF found # {}
        THEN [ret |-> "ESP_OK", id |-> Min(found), event_types |-> et,
              event_type_count |-> cnt]
        ELSE IF cnt >= MaxEventTypes \/ free = {}
        THEN [ret |-> "ESP_ERR_EVENT_TYPE_REGISTRY_FULL", id |-> -1,
              event_types |-> et, event_type_count |-> cnt]
        ELSE [ret |-> "ESP_OK", id |-> Min(free),
              event_types |-> [et EXCEPT ![Min(free)] =
                                 [registered |-> TRUE,
                                  event_name |-> strncpy(event_name,
                                     SYSTEM_SERVICE_MAX_NAME_LEN - 1)]],
              event_type_count |-> cnt + 1]

\* a call that finds the name returns its id and changes nothing
system_event_register_type(name) ==
    /\ sysLock = NoTask
    /\ LET r == register_type_result(event_types, event_type_count, name)
       IN  /\ r.ret = "ESP_OK"
           /\ r.event_types # event_types
           /\ event_types' = r.event_types
           /\ event_type_count' = r.event_type_count
    /\ UNCHANGED << services, service_count, subscriptions,
                    subscription_count >>
    /\ UNCHANGED << ctlVars, pqVars, dispVars, postVars, histVars >>
    /\ UNCHANGED extVars

\* quota_check_subscription(service_id); got: the 10 ms take of the quota
\* mutex succeeds.  (usage.quota_violations is not kept.)
quota_check_subscription(id, got) ==
    IF got /\ find_entry(id) # {}
           /\ quota[Min(find_entry(id))].active_subscriptions
                 >= quota[Min(find_entry(id))].max_subscriptions
    THEN "ESP_ERR_QUOTA_SUBSCRIPTIONS_EXCEEDED"
    ELSE "ESP_OK"

\* quota_record_subscription(service_id, add)
quota_record_subscription(q, id, add, got) ==
    IF got /\ find_entry(id) # {}
    THEN [q EXCEPT ![Min(find_entry(id))].active_subscriptions =
                      IF add THEN @ + 1 ELSE IF @ > 0 THEN @ - 1 ELSE @]
    ELSE q

\* n calls of quota_record_subscription(service_id, false) that obtain the
\* quota mutex
RECURSIVE quota_record_subscriptions(_, _, _)
quota_record_subscriptions(q, id, n) ==
    IF n = 0 THEN q
    ELSE quota_record_subscriptions(
            quota_record_subscription(q, id, FALSE, TRUE), id, n - 1)

\* the slots holding an active subscription of id to type
Subscribed(id, type) ==
    {i \in SubSlots : /\ subscriptions[i].active
                      /\ subscriptions[i].service_id = id
                      /\ subscriptions[i].event_type = type}

\* (a subscribe that does not look for an existing subscription)
subscribe_result_unchecked(id, type, got) ==
    LET free == {i \in SubSlots : ~subscriptions[i].active}
    IN  IF free = {}
        THEN [ret |-> "ESP_ERR_EVENT_SUBSCRIPTION_FULL", slot |-> -1,
              subscriptions |-> subscriptions,
              subscription_count |-> subscription_count]
        ELSE [ret |-> "ESP_OK", slot |-> Min(free),
              subscriptions |-> [subscriptions EXCEPT ![Min(free)] =
                                   [active |-> TRUE, service_id |-> id,
                                    event_type |-> type]],
              subscription_count |-> subscription_count + 1]

\* the return value of system_event_subscribe(id, type, handler, user_data)
\* once it holds the system lock, the slot it fills and the table it leaves
subscribe_result(id, type, got) ==
    LET free == {i \in SubSlots : ~subscriptions[i].active}
        same == [slot |-> -1, subscriptions |-> subscriptions,
                 subscription_count |-> subscription_count]
    IN  IF quota_check_subscription(id, got) # "ESP_OK"
        THEN [ret |-> quota_check_subscription(id, got)] @@ same
        ELSE IF ~services[id].registered
        THEN [ret |-> "ESP_ERR_SERVICE_NOT_FOUND"] @@ same
        ELSE IF ~event_types[type].registered
        THEN [ret |-> "ESP_ERR_EVENT_TYPE_NOT_FOUND"] @@ same
        ELSE IF Subscribed(id, type) # {}
        THEN [ret |-> "ESP_OK"] @@ same
        ELSE IF free = {}
        THEN [ret |-> "ESP_ERR_EVENT_SUBSCRIPTION_FULL"] @@ same
        ELSE [ret |-> "ESP_OK", slot |-> Min(free),
              subscriptions |-> [subscriptions EXCEPT ![Min(free)] =
                                   [active |-> TRUE, service_id |-> id,
                                    event_type |-> type]],
              subscription_count |-> subscription_count + 1]

\* a call that fills a slot; afterwards the tracker and the quota usage are
\* updated, the latter when the quota mutex is obtained
system_event_subscribe(id, type) ==
    /\ sysLock = NoTask
    /\ \E got \in BOOLEAN, recorded \in BOOLEAN :
          LET r == subscribe_result(id, type, got)
          IN  /\ r.ret = "ESP_OK"
              /\ r.slot \in SubSlots
              /\ subscriptions' = r.subscriptions
              /\ subscription_count' = r.subscription_count
              /\ dtouched' = Touch({r.slot})
              /\ quota' = quota_record_subscription(quota, id, TRUE, recorded)
    /\ \A i \in ServiceIds : quota'[i].active_subscriptions <= MaxSubscribers
    /\ UNCHANGED accepted
    /\ UNCHANGED << services, service_count, event_types, event_type_count >>
    /\ UNCHANGED << ctlVars, pqVars, dpc, dev, di, dscan, dsub, ddone, dsnap,
                    postVars, histVars >>
    /\ trackers' = app_lifecycle_track_subscription(id, type)
    /\ UNCHANGED << wdTask, wdVars >>
    /\ UNCHANGED << depVars, poolVars, appVars >>

system_event_unsubscribe(id, type) ==
    /\ sysLock = NoTask
    /\ \E i \in SubSlots :
          /\ subscriptions[i].active
          /\ subscriptions[i].service_id = id
          /\ subscriptions[i].event_type = type
    /\ LET slot == Min({i \in SubSlots :
                          /\ subscriptions[i].active
                          /\ subscriptions[i].service_id = id
                          /\ subscriptions[i].event_type = type})
       IN  /\ subscriptions' = [subscriptions EXCEPT ![slot].active = FALSE]
           /\ dtouched' = Touch({slot})
    /\ subscription_count' = subscription_count - 1
    /\ UNCHANGED << services, service_count, event_types, event_type_count >>
    /\ UNCHANGED << ctlVars, pqVars, dpc, dev, di, dscan, dsub, ddone, dsnap,
                    postVars, histVars >>
    /\ trackers' = app_lifecycle_untrack_subscription(id, type)
    /\ \E recorded \in BOOLEAN :
          quota' = quota_record_subscription(quota, id, FALSE, recorded)
    /\ UNCHANGED << accepted, wdTask, wdVars >>
    /\ UNCHANGED << depVars, poolVars, appVars >>

\* app_lifecycle_unsubscribe_all(id): system_event_unsubscribe for every
\* tracked type, with the tracker mutex held all along, so that the
\* untrack call inside each of them times out; then the tracker is cleared.
\* Each of the unsubscribe calls records in the quota usage when it obtains
\* the quota mutex.
app_lifecycle_unsubscribe_all(id) ==
    /\ sysLock = NoTask
    /\ find_tracker(id) # {}
    /\ LET tr == Min(find_tracker(id))
           freed == {i \in OwnedSlots(id) :
                       InSeq(trackers[tr].event_types,
                             subscriptions[i].event_type)}
       IN  /\ subscriptions' = [i \in SubSlots |->
                                   IF i \in freed
                                   THEN [subscriptions[i] EXCEPT
                                           !.active = FALSE]
                                   ELSE subscriptions[i]]
           /\ subscription_count' = subscription_count - Cardinality(freed)
           /\ dtouched' = Touch(freed)
           /\ trackers' = [trackers EXCEPT ![tr] = Tracker(id, << >>)]
           /\ \E recorded \in 0 .. Cardinality(freed) :
                 quota' = quota_record_subscriptions(quota, id, recorded)
    /\ UNCHANGED << services, service_count, event_types, event_type_count >>
    /\ UNCHANGED << ctlVars, pqVars, dpc, dev, di, dscan, dsub, ddone, dsnap,
                    postVars, histVars >>
    /\ UNCHANGED << accepted, wdTask, wdVars >>
    /\ UNCHANGED << depVars, poolVars, appVars >>

(* ------------------------------------------------------------------ *)
(* Runtime start / stop (system_service.c)                              *)
(* ------------------------------------------------------------------ *)
FreeTasks == {d \in Dispatchers : dpc[d] = "none"}

\* watchdog_start, then xTaskCreate of event_task, which succeeds while a
\* task control block is available.  A watchdog task of an earlier start
\* that has not yet read running = false goes on as the one watchdog task.
system_service_start ==
    /\ ~running
    /\ FreeTasks # {}
    /\ LET d == CHOOSE x \in FreeTasks : TRUE
       IN  /\ dpc' = [dpc EXCEPT ![d] = "check"]
           /\ event_task_handle' = d
    /\ running' = TRUE
    /\ UNCHANGED << regVars, total_events_posted, sysLock, pqVars, dev, di,
                    dscan, dsub, ddone, dsnap, dtouched, postVars, histVars >>
    /\ wdRunning' = TRUE
    /\ wpc' = IF wpc = "none" THEN "check" ELSE wpc
    /\ UNCHANGED << quotaVars, trackers, wdVars >>
    /\ UNCHANGED << depVars, poolVars, appVars >>

\* running = false, watchdog_stop, 200 ms delay, event_task = NULL; the
\* task is neither deleted nor awaited
system_service_stop ==
    /\ running
    /\ running' = FALSE
    /\ event_task_handle' = NoTask
    /\ UNCHANGED << regVars, total_events_posted, sysLock, pqVars, dispVars,
                    postVars, histVars >>
    /\ wdRunning' = FALSE
    /\ UNCHANGED << quotaVars, trackers, wpc, wdVars >>
    /\ UNCHANGED << depVars, poolVars, appVars >>

(* ------------------------------------------------------------------ *)
(* Resource quota (resource_quota.c)                                    *)
(* ------------------------------------------------------------------ *)
\* allocate_entry: the first inactive slot
allocate_entry == Min({i \in ServiceIds : ~quota[i].active})

\* quota_set(service_id, &q) with q.max_events_per_sec = max and
\* q.max_subscriptions = subs: a new entry starts with zeroed usage, an
\* existing one keeps its usage
quota_set(id, max, subs) ==
    /\ IF find_entry(id) # {}
       THEN quota' = [quota EXCEPT ![Min(find_entry(id))] =
                        [@ EXCEPT !.max_events_per_sec = max,
                                  !.max_subscriptions = subs]]
       ELSE /\ \E i \in ServiceIds : ~quota[i].active
            /\ quota' = [quota EXCEPT ![allocate_entry] =
                            [active |-> TRUE, service_id |-> id,
                             max_events_per_sec |-> max,
                             max_subscriptions |-> subs,
                             events_this_sec |-> 0,
                             active_subscriptions |-> 0]]
    /\ quota' # quota
    /\ UNCHANGED << ctlVars, regVars, pqVars, dispVars, postVars, histVars,
                    accepted >>
    /\ UNCHANGED << trackers, wdTask, wdVars >>
    /\ UNCHANGED << depVars, poolVars, appVars >>

\* system_event_post up to the end of quota_check_event_post, for a sender
\* that has an entry.  The 10 ms take of the quota mutex may fail, and the
\* post is then admitted unchecked.  (usage.quota_violations is not kept.)
quota_check_event_post(t, sender, budget) ==
    /\ ppc[t] = "idle"
    /\ running
    /\ total_events_posted < budget
    /\ find_entry(sender) # {}
    /\ \E got \in BOOLEAN :
          LET entry == quota[Min(find_entry(sender))]
          IN  IF got /\ entry.events_this_sec >= entry.max_events_per_sec
              THEN /\ pret' = [pret EXCEPT ![t] =
                                  "ESP_ERR_QUOTA_EVENTS_EXCEEDED"]
                   /\ UNCHANGED << ppc, psender >>
              ELSE /\ ppc' = [ppc EXCEPT ![t] = "admitted"]
                   /\ psender' = [psender EXCEPT ![t] = sender]
                   /\ UNCHANGED pret
    /\ UNCHANGED << ctlVars, regVars, pqVars, dispVars, pev, histVars,
                    extVars >>

\* quota_record_event_post at the end of an accepted system_event_post;
\* nothing is recorded when the 10 ms take of the quota mutex fails or the
\* entry is gone
quota_record_event_post(t) ==
    /\ ppc[t] = "record"
    /\ \E got \in BOOLEAN :
          quota' = IF got /\ find_entry(psender[t]) # {}
                   THEN [quota EXCEPT
                           ![Min(find_entry(psender[t]))].events_this_sec
                              = @ + 1]
                   ELSE quota
    /\ accepted' = [accepted EXCEPT ![psender[t]] = @ + 1]
    /\ ppc' = [ppc EXCEPT ![t] = "idle"]
    /\ psender' = [psender EXCEPT ![t] = 0]
    /\ UNCHANGED << ctlVars, regVars, pqVars, dispVars, pev, pret,
                    histVars >>
    /\ UNCHANGED << trackers, wdTask, wdVars >>
    /\ UNCHANGED << depVars, poolVars, appVars >>

\* quota_reset_counters: a new one-second window begins
quota_reset_counters ==
    /\ quota' = [i \in ServiceIds |->
                    IF quota[i].active
                    THEN [quota[i] EXCEPT !.events_this_sec = 0]
                    ELSE quota[i]]
    /\ accepted' = [s \in ServiceIds |-> 0]
    /\ (quota' # quota \/ accepted' # accepted)
    /\ UNCHANGED << ctlVars, regVars, pqVars, dispVars, postVars, histVars >>
    /\ UNCHANGED << trackers, wdTask, wdVars >>
    /\ UNCHANGED << depVars, poolVars, appVars >>

(* ------------------------------------------------------------------ *)
(* Watchdog (service_watchdog.c) and heartbeats (service_manager.c)     *)
(* ------------------------------------------------------------------ *)
\* one millisecond passes; a heartbeating service lets no more than
\* WdTimeout / 2 go by between two heartbeats
Tick ==
    /\ now < MaxTime
    /\ \A s \in Heartbeaters :
          services[s].registered =>
             (now + 1) - svc_heartbeat[s] <= WdTimeout \div 2
    /\ now' = now + 1
    /\ UNCHANGED << ctlVars, regVars, pqVars, dispVars, postVars, histVars,
                    quotaVars, trackers, wdTask, svc_heartbeat, wd, wdStats, safe_mode,
                    wdMutex, wi, wnow >>
    /\ UNCHANGED << depVars, poolVars, appVars >>

system_service_heartbeat(id) ==
    /\ sysLock = NoTask
    /\ services[id].registered
    /\ svc_heartbeat[id] # now
    /\ svc_heartbeat' = [svc_heartbeat EXCEPT ![id] = now]
    /\ UNCHANGED << ctlVars, regVars, pqVars, dispVars, postVars, histVars,
                    quotaVars, trackers, wdTask, now, wd, wdStats, safe_mode, wdMutex,
                    wi, wnow >>
    /\ UNCHANGED << depVars, poolVars, appVars >>

\* find_entry(service_id) of service_watchdog.c
wd_find_entry(id) ==
    {i \in ServiceIds : wd[i].active /\ wd[i].service_id = id}

watchdog_register_service(id, config) ==
    /\ wdMutex = NoTask
    /\ wd_find_entry(id) = {}
    /\ \E i \in ServiceIds : ~wd[i].active
    /\ LET slot == Min({i \in ServiceIds : ~wd[i].active})
       IN  wd' = [wd EXCEPT ![slot] =
                    [active |-> TRUE, service_id |-> id, config |-> config,
                     last_heartbeat |-> now, restart_attempts |-> 0,
                     timeout_detected |-> FALSE]]
    /\ UNCHANGED << ctlVars, regVars, pqVars, dispVars, postVars, histVars,
                    quotaVars, trackers, wdTask, now, svc_heartbeat, wdStats, safe_mode,
                    wdMutex, wi, wnow >>
    /\ UNCHANGED << depVars, poolVars, appVars >>

\* what watchdog_enable_service(id) returns on the table w
watchdog_enable_result(w, id) ==
    IF {i \in ServiceIds : w[i].active /\ w[i].service_id = id} = {}
    THEN "ESP_ERR_NOT_FOUND"
    ELSE "ESP_OK"

watchdog_enable_service(id) ==
    /\ wdMutex = NoTask
    /\ watchdog_enable_result(wd, id) = "ESP_OK"
    /\ wd' = [wd EXCEPT ![Min(wd_find_entry(id))] =
                 [@ EXCEPT !.active = TRUE, !.last_heartbeat = now]]
    /\ UNCHANGED << ctlVars, regVars, pqVars, dispVars, postVars, histVars,
                    quotaVars, trackers, wdTask, now, svc_heartbeat, wdStats, safe_mode,
                    wdMutex, wi, wnow >>
    /\ UNCHANGED << depVars, poolVars, appVars >>

watchdog_disable_service(id) ==
    /\ wdMutex = NoTask
    /\ wd_find_entry(id) # {}
    /\ wd' = [wd EXCEPT ![Min(wd_find_entry(id))].active = FALSE]
    /\ UNCHANGED << ctlVars, regVars, pqVars, dispVars, postVars, histVars,
                    quotaVars, trackers, wdTask, now, svc_heartbeat, wdStats, safe_mode,
                    wdMutex, wi, wnow >>
    /\ UNCHANGED << depVars, poolVars, appVars >>

\* while (g_watchdog_ctx.running) { now = get_time_ms(); and the take of
\* g_watchdog_ctx.mutex, which is free: the sample and the take are one step
wd_check ==
    /\ wpc = "check"
    /\ wdMutex = NoTask
    /\ IF wdRunning
       THEN /\ wnow' = now
            /\ wdMutex' = WdTask
            /\ wi' = 0
            /\ wpc' = "scan"
       ELSE /\ wpc' = "none"
            /\ UNCHANGED << wnow, wdMutex, wi >>
    /\ UNCHANGED << ctlVars, regVars, pqVars, dispVars, postVars, histVars,
                    quotaVars, trackers, wdRunning, now, svc_heartbeat, wd, wdStats,
                    safe_mode >>
    /\ UNCHANGED << depVars, poolVars, appVars >>

\* xSemaphoreTake(g_watchdog_ctx.mutex, 100 ms) fails: the scan is skipped
wd_take_fail ==
    /\ wpc = "check"
    /\ wdRunning
    /\ wpc' = "delay"
    /\ UNCHANGED << ctlVars, regVars, pqVars, dispVars, postVars, histVars,
                    quotaVars, trackers, wdRunning, wdVars >>
    /\ UNCHANGED << depVars, poolVars, appVars >>

\* uint32_t elapsed = now - entry->last_heartbeat; elapsed > timeout_ms.
\* For now < last_heartbeat the unsigned difference wraps to
\* 2^32 - (last_heartbeat - now), which is above every timeout in use.
TimedOut(n, last, timeout_ms) ==
    IF n >= last THEN n - last > timeout_ms ELSE TRUE

\* enter_safe_mode(reason)
enter_safe_mode(st) ==
    IF safe_mode THEN st
    ELSE [st EXCEPT !.critical_failures = @ + 1]

\* one pass of the for loop over entries[i], up to the call of
\* restart_service; after the last entry xSemaphoreGive
wd_scan ==
    /\ wpc = "scan"
    /\ wdMutex = WdTask
    /\ IF wi = MaxServices
       THEN /\ wdMutex' = NoTask
            /\ wpc' = "delay"
            /\ UNCHANGED << wd, wdStats, safe_mode, wi >>
       ELSE LET entry == wd[wi]
                timed == [entry EXCEPT !.timeout_detected = TRUE]
                counted == [wdStats EXCEPT !.total_timeouts = @ + 1]
            IN  IF ~entry.active
                THEN /\ wi' = wi + 1
                     /\ UNCHANGED << wd, wdStats, safe_mode, wdMutex, wpc >>
                ELSE IF TimedOut(wnow, entry.last_heartbeat,
                                 entry.config.timeout_ms)
                THEN IF entry.timeout_detected
                     THEN /\ wi' = wi + 1
                          /\ UNCHANGED << wd, wdStats, safe_mode, wdMutex,
                                          wpc >>
                     ELSE IF entry.config.is_critical
                     THEN /\ wd' = [wd EXCEPT ![wi] = timed]
                          /\ wdStats' = enter_safe_mode(counted)
                          /\ safe_mode' = TRUE
                          /\ wi' = wi + 1
                          /\ UNCHANGED << wdMutex, wpc >>
                     ELSE IF /\ entry.config.auto_restart
                             /\ \/ entry.config.max_restart_attempts = 0
                                \/ entry.restart_attempts
                                      < entry.config.max_restart_attempts
                     THEN /\ wd' = [wd EXCEPT ![wi] =
                                      [timed EXCEPT !.restart_attempts = @ + 1]]
                          /\ wdStats' = [counted EXCEPT
                                            !.total_restarts = @ + 1]
                          /\ wpc' = "restart"
                          /\ UNCHANGED << safe_mode, wdMutex, wi >>
                     ELSE /\ wd' = [wd EXCEPT ![wi] = timed]
                          /\ wdStats' = counted
                          /\ wi' = wi + 1
                          /\ UNCHANGED << safe_mode, wdMutex, wpc >>
                ELSE /\ wd' = IF entry.timeout_detected
                              THEN [wd EXCEPT ![wi].timeout_detected = FALSE,
                                              ![wi].restart_attempts = 0]
                              ELSE wd
                     /\ wi' = wi + 1
                     /\ UNCHANGED << wdStats, safe_mode, wdMutex, wpc >>
    /\ UNCHANGED << ctlVars, regVars, pqVars, dispVars, postVars, histVars,
                    quotaVars, trackers, wdRunning, now, svc_heartbeat, wnow >>
    /\ UNCHANGED << depVars, poolVars, appVars >>

\* the return of restart_service to watchdog_task
Restarted(ok) ==
    /\ IF ok
       THEN /\ wd' = [wd EXCEPT ![wi].last_heartbeat = wnow,
                                ![wi].timeout_detected = FALSE]
            /\ UNCHANGED wdStats
       ELSE /\ wdStats' =
                 [wdStats EXCEPT
                    !.failed_restarts = @ + 1,
                    !.critical_failures =
                        IF /\ wd[wi].config.max_restart_attempts > 0
                           /\ wd[wi].restart_attempts
                                 >= wd[wi].config.max_restart_attempts
                        THEN @ + 1 ELSE @]
            /\ UNCHANGED wd
    /\ wi' = wi + 1
    /\ wpc' = "scan"
    /\ UNCHANGED << depVars, poolVars, appVars >>

\* restart_service: system_lock() of system_service_get_info, called with
\* the watchdog mutex held
wd_get_info ==
    /\ wpc = "restart"
    /\ sysLock = NoTask
    /\ sysLock' = WdTask
    /\ wpc' = "info"
    /\ UNCHANGED << running, event_task_handle, total_events_posted, regVars,
                    pqVars, dispVars, postVars, histVars, quotaVars, trackers,
                    wdRunning, wdVars >>
    /\ UNCHANGED << depVars, poolVars, appVars >>

\* that system_lock() fails after SYSTEM_SERVICE_MUTEX_TIMEOUT_MS
wd_get_info_fail ==
    /\ wpc = "restart"
    /\ Restarted(FALSE)
    /\ UNCHANGED << ctlVars, regVars, pqVars, dispVars, postVars, histVars,
                    quotaVars, trackers, wdRunning, now, svc_heartbeat, safe_mode,
                    wdMutex, wnow >>
    /\ UNCHANGED << depVars, poolVars, appVars >>

\* the rest of system_service_get_info, then system_service_set_state(id,
\* SYSTEM_SERVICE_STATE_ERROR), which fails when its system_lock() does
wd_set_state ==
    /\ wpc = "info"
    /\ sysLock = WdTask
    /\ sysLock' = NoTask
    /\ LET id == wd[wi].service_id
       IN  IF ~services[id].registered
           THEN /\ Restarted(FALSE)
                /\ UNCHANGED services
           ELSE \E got \in BOOLEAN :
                   /\ Restarted(got)
                   /\ services' = IF got
                                  THEN [services EXCEPT ![id].state = "ERROR"]
                                  ELSE services
    /\ UNCHANGED << running, event_task_handle, total_events_posted,
                    service_count, event_types, event_type_count,
                    subscriptions, subscription_count, pqVars, dispVars,
                    postVars, histVars, quotaVars, trackers, wdRunning, now,
                    svc_heartbeat, safe_mode, wdMutex, wnow >>
    /\ UNCHANGED << depVars, poolVars, appVars >>

\* vTaskDelay(check_interval_ms)
wd_delay ==
    /\ wpc = "delay"
    /\ wpc' = "check"
    /\ UNCHANGED << ctlVars, regVars, pqVars, dispVars, postVars, histVars,
                    quotaVars, trackers, wdRunning, wdVars >>
    /\ UNCHANGED << depVars, poolVars, appVars >>

(* ------------------------------------------------------------------ *)
(* Memory pool (memory_pool.c)                                          *)
(* ------------------------------------------------------------------ *)
\* memory_pool_free(ptr) on a pool block: the block goes back to its pool
\* when the 100 ms take of pool->mutex succeeds; otherwise the function
\* logs and returns with the block still allocated
memory_pool_free(fr, ptr, taken) ==
    IF taken THEN [fr EXCEPT ![ptr] = @ + 1] ELSE fr

\* The counters of memory_pool_stats_t are uint32_t.  A counter is held as
\* its 32-bit pattern read as a signed number, so 0xFFFFFFFF is -1, x++ and
\* x-- are +1 and -1, and the unsigned comparison is u32_gt.
u32_gt(a, b) == IF (a < 0) = (b < 0) THEN a > b ELSE a < 0

\* is_pool_pointer(ptr, &pool_id): block->magic is written by
\* pool_init_single and by nothing else, so it is POOL_BLOCK_MAGIC in every
\* block of the pool, allocated or free; a block of the heap fails the range
\* test
is_pool_pointer(ptr) == ptr \in PoolBlockIds

\* memory_pool_alloc(size) with the pool mutex taken; oversize: size is
\* larger than the data_size of every pool.  malloc returns NULL (0) when
\* the heap has nothing left.
pool_alloc(oversize) ==
    /\ pool_stats.total_allocations + pool_stats.allocation_failures
          < MaxPoolCalls
    /\ LET block == IF oversize THEN 0 ELSE pool_free_list
           heap == IF HeapIds \ heap_live = {} THEN 0
                   ELSE Min(HeapIds \ heap_live)
           ptr == IF block # 0 THEN block ELSE heap
           used == pool_stats.blocks_used + 1
       IN  /\ IF block # 0
              THEN /\ pool_free_list' = pool_next[block]
                   /\ pool_stats' =
                         [pool_stats EXCEPT
                            !.blocks_used = used,
                            !.blocks_free = @ - 1,
                            !.total_allocations = @ + 1,
                            !.high_water_mark =
                               IF u32_gt(used, @) THEN used ELSE @]
              ELSE /\ pool_stats' =
                         IF oversize THEN pool_stats
                         ELSE [pool_stats EXCEPT !.allocation_failures = @ + 1]
                   /\ UNCHANGED pool_free_list
           /\ heap_live' = IF block = 0 /\ heap # 0
                           THEN heap_live \cup {heap} ELSE heap_live
           /\ pool_issued' = IF ptr # 0 THEN pool_issued \cup {ptr}
                             ELSE pool_issued
           /\ pool_call' = [op |-> "alloc", ptr |-> ptr]
    /\ UNCHANGED pool_next
    /\ UNCHANGED << ctlVars, regVars, pqVars, dispVars, postVars, histVars >>
    /\ UNCHANGED << quotaVars, trackers, wdTask, wdVars, depVars, appVars >>

\* memory_pool_free(ptr) with the pool mutex taken, for a pointer that
\* memory_pool_alloc returned earlier; a heap block is passed once only
pool_free(ptr) ==
    /\ ptr \in pool_issued
    /\ IF is_pool_pointer(ptr)
       THEN /\ pool_stats.total_frees < MaxPoolCalls
            /\ pool_next' = [pool_next EXCEPT ![ptr] = pool_free_list]
            /\ pool_free_list' = ptr
            /\ pool_stats' = [pool_stats EXCEPT !.blocks_used = @ - 1,
                                                !.blocks_free = @ + 1,
                                                !.total_frees = @ + 1]
            /\ UNCHANGED heap_live
       ELSE /\ ptr \in heap_live
            /\ heap_live' = heap_live \ {ptr}
            /\ UNCHANGED << pool_free_list, pool_next, pool_stats >>
    /\ pool_call' = [op |-> "free", ptr |-> ptr]
    /\ UNCHANGED pool_issued
    /\ UNCHANGED << ctlVars, regVars, pqVars, dispVars, postVars, histVars >>
    /\ UNCHANGED << quotaVars, trackers, wdTask, wdVars, depVars, appVars >>

(* ------------------------------------------------------------------ *)
(* system_event_post and priority_queue_post                            *)
(* ------------------------------------------------------------------ *)
HasRoom(p) == Len(queues[p]) < queue_sizes[p]

Idle == \A d \in Dispatchers : dev[d] = NoEvent

\* xQueueSend succeeded: the copy is in the queue
Enqueue(q, ev) == [queues EXCEPT ![q] = Append(@, [ev EXCEPT !.fresh = Idle])]

\* system_event_post up to and including the sequence-number assignment of
\* priority_queue_post; the test of ctx->running is taken together with
\* the critical section that follows it.  The 10 ms take of pq->mutex fails while another
\* task holds it; the event then keeps sequence_number 0.  'budget' caps
\* the number of posts of a run.
post_begin(t, sender, type, prio, budget) ==
    /\ \/ ppc[t] = "idle" /\ running /\ find_entry(sender) = {}
       \/ ppc[t] = "admitted" /\ psender[t] = sender
    /\ total_events_posted < budget
    /\ sysLock = NoTask
    /\ services[sender].registered
    /\ event_types[type].registered
    /\ LET id == total_events_posted + 1
           got == (pqMutex = NoTask)
       IN  /\ pev' = [pev EXCEPT ![t] =
                        [id |-> id, event_type |-> type, priority |-> prio,
                         data |-> id,
                         sequence_number |-> IF got THEN sequence_counter ELSE 0,
                         fresh |-> FALSE]]
           /\ sequence_counter' = IF got THEN sequence_counter + 1
                                  ELSE sequence_counter
    /\ total_events_posted' = total_events_posted + 1
    /\ ppc' = [ppc EXCEPT ![t] = "send"]
    /\ psender' = [psender EXCEPT ![t] = sender]
    /\ UNCHANGED << running, event_task_handle, regVars, sysLock, queues,
                    pqMutex, stats, dispVars, pret, histVars >>
    /\ UNCHANGED extVars

\* system_event_post of a sender that was unregistered after the quota
\* check: ESP_ERR_SERVICE_NOT_FOUND under the system lock
post_not_found(t) ==
    /\ ppc[t] = "admitted"
    /\ sysLock = NoTask
    /\ ~services[psender[t]].registered
    /\ ppc' = [ppc EXCEPT ![t] = "idle"]
    /\ pret' = [pret EXCEPT ![t] = "ESP_ERR_SERVICE_NOT_FOUND"]
    /\ psender' = [psender EXCEPT ![t] = 0]
    /\ UNCHANGED << ctlVars, regVars, pqVars, dispVars, pev, histVars,
                    extVars >>

\* priority_queue_post returned ESP_OK: system_event_post goes on to
\* quota_record_event_post, which does nothing for a sender without entry
Accept(t) ==
    /\ pret' = [pret EXCEPT ![t] = "ESP_OK"]
    /\ pev' = [pev EXCEPT ![t] = NoEvent]
    /\ IF find_entry(psender[t]) = {}
       THEN /\ ppc' = [ppc EXCEPT ![t] = "idle"]
            /\ psender' = [psender EXCEPT ![t] = 0]
       ELSE /\ ppc' = [ppc EXCEPT ![t] = "record"]
            /\ UNCHANGED psender
    /\ UNCHANGED << depVars, poolVars, appVars >>

\* xQueueSend(queue, &event_copy, 100 ms): enqueues when there is room, and
\* otherwise times out into the overflow branch
pq_send(t) ==
    /\ ppc[t] = "send"
    /\ LET q == pev[t].priority
       IN  IF HasRoom(q)
           THEN /\ queues' = Enqueue(q, pev[t])
                /\ Accept(t)
           ELSE /\ ppc' = [ppc EXCEPT ![t] = "overflow"]
                /\ UNCHANGED << queues, pret, pev, psender >>
    /\ UNCHANGED << ctlVars, regVars, pqMutex, sequence_counter, stats,
                    dispVars, histVars >>
    /\ UNCHANGED extVars

\* priority_queue_post returns ESP_ERR_TIMEOUT; system_event_post frees the
\* payload copy and returns the error
Refuse(t, fr, taken) ==
    /\ frees' = memory_pool_free(fr, pev[t].data, taken)
    /\ pret' = [pret EXCEPT ![t] = "ESP_ERR_TIMEOUT"]
    /\ ppc' = [ppc EXCEPT ![t] = "idle"]
    /\ pev' = [pev EXCEPT ![t] = NoEvent]
    /\ psender' = [psender EXCEPT ![t] = 0]

\* the oldest LOW event, read by xQueueReceive in the overflow branch
Oldest(q) == Head(q)

EvictNewest(q) == SubSeq(q, 1, Len(q) - 1)

\* the LOW queue after that xQueueReceive
Evict(q) == Tail(q)

\* the overflow branch: statistics under pq->mutex and, for LOW, removal of
\* the oldest LOW event
pq_overflow(t) ==
    /\ ppc[t] = "overflow"
    /\ \E taken \in BOOLEAN :
        LET q == pev[t].priority
        IN  IF pqMutex # NoTask
            THEN \* the 10 ms take fails: no statistics, refuse
                 /\ Refuse(t, frees, taken)
                 /\ UNCHANGED << queues, pqMutex, stats >>
            ELSE IF q \in {SYSTEM_EVENT_PRIORITY_HIGH,
                           SYSTEM_EVENT_PRIORITY_CRITICAL}
            THEN /\ stats' = [stats EXCEPT !.high_priority_overflows = @ + 1]
                 /\ Refuse(t, frees, taken)
                 /\ UNCHANGED << queues, pqMutex >>
            ELSE IF q = SYSTEM_EVENT_PRIORITY_NORMAL
            THEN /\ stats' = [stats EXCEPT !.normal_priority_overflows = @ + 1]
                 /\ Refuse(t, frees, taken)
                 /\ UNCHANGED << queues, pqMutex >>
            ELSE IF queues[q] # << >>
            THEN /\ stats' = [stats EXCEPT !.low_priority_overflows = @ + 1,
                                           !.low_priority_drops = @ + 1]
                 /\ queues' = [queues EXCEPT ![q] = Evict(@)]
                 /\ frees' = memory_pool_free(frees, Oldest(queues[q]).data,
                                              taken)
                 /\ pqMutex' = t
                 /\ ppc' = [ppc EXCEPT ![t] = "retry"]
                 /\ UNCHANGED << pret, pev, psender >>
            ELSE /\ stats' = [stats EXCEPT !.low_priority_overflows = @ + 1]
                 /\ Refuse(t, frees, taken)
                 /\ UNCHANGED << queues, pqMutex >>
    /\ UNCHANGED << ctlVars, regVars, sequence_counter, dispVars, seen >>
    /\ UNCHANGED extVars

\* second xQueueSend(queue, &event_copy, 0) after the eviction, then
\* xSemaphoreGive(pq->mutex)
pq_retry(t) ==
    /\ ppc[t] = "retry"
    /\ pqMutex' = NoTask
    /\ LET q == pev[t].priority
       IN  IF HasRoom(q)
           THEN /\ queues' = Enqueue(q, pev[t])
                /\ Accept(t)
                /\ UNCHANGED frees
           ELSE /\ \E taken \in BOOLEAN : Refuse(t, frees, taken)
                /\ UNCHANGED queues
    /\ UNCHANGED << ctlVars, regVars, sequence_counter, stats, dispVars,
                    seen >>
    /\ UNCHANGED extVars

(* ------------------------------------------------------------------ *)
(* Dispatcher: event_task with priority_queue_receive inlined           *)
(* ------------------------------------------------------------------ *)
\* while (ctx->running)
et_check(d) ==
    /\ dpc[d] = "check"
    /\ dpc' = [dpc EXCEPT ![d] = IF running THEN "scan" ELSE "none"]
    /\ UNCHANGED << ctlVars, regVars, pqVars, dev, di, dscan, dsub, ddone,
                    dsnap, dtouched, postVars, histVars >>
    /\ UNCHANGED extVars

\* history: a take ends the idle period the waiting events were posted in
RECURSIVE Unfresh(_)
Unfresh(q) ==
    IF q = << >> THEN << >>
    ELSE << [Head(q) EXCEPT !.fresh = FALSE] >> \o Unfresh(Tail(q))

EndIdle(qs) == [p \in Priorities |-> Unfresh(qs[p])]

\* one xQueueReceive(pq->queues[priority_order[i]], event, 0) of the for
\* loop of priority_queue_receive
et_poll(d) ==
    /\ dpc[d] = "scan"
    /\ LET q == priority_order[dscan[d]]
       IN  IF queues[q] # << >>
           THEN /\ dev' = [dev EXCEPT ![d] =
                             [Head(queues[q]) EXCEPT !.fresh = FALSE]]
                /\ queues' = EndIdle([queues EXCEPT ![q] = Tail(@)])
                /\ dpc' = [dpc EXCEPT ![d] = "lock"]
                /\ dscan' = [dscan EXCEPT ![d] = 1]
           ELSE /\ IF dscan[d] < Len(priority_order)
                   THEN /\ dscan' = [dscan EXCEPT ![d] = @ + 1]
                        /\ UNCHANGED dpc
                   ELSE /\ dscan' = [dscan EXCEPT ![d] = 1]
                        /\ dpc' = [dpc EXCEPT ![d] = "delay"]
                /\ UNCHANGED << dev, queues >>
    /\ UNCHANGED << ctlVars, regVars, pqMutex, sequence_counter, stats, di,
                    dsub, ddone, dsnap, dtouched, postVars, histVars >>
    /\ UNCHANGED extVars

\* vTaskDelay(1) elapsed, next round of polling
et_delay(d) ==
    /\ dpc[d] = "delay"
    /\ dpc' = [dpc EXCEPT ![d] = "scan"]
    /\ UNCHANGED << ctlVars, regVars, pqVars, dev, di, dscan, dsub, ddone,
                    dsnap, dtouched, postVars, histVars >>
    /\ UNCHANGED extVars

\* elapsed >= timeout_ticks: receive returns ESP_ERR_TIMEOUT, 'continue'
et_receive_timeout(d) ==
    /\ dpc[d] = "delay"
    /\ dpc' = [dpc EXCEPT ![d] = "check"]
    /\ UNCHANGED << ctlVars, regVars, pqVars, dev, di, dscan, dsub, ddone,
                    dsnap, dtouched, postVars, histVars >>
    /\ UNCHANGED extVars

\* slots at or after index 'from' holding an active subscription of 'type'
Matching(from, type) ==
    {i \in SubSlots : /\ i >= from
                      /\ subscriptions[i].active
                      /\ subscriptions[i].event_type = type}

\* system_lock() before the subscriber loop succeeds
et_lock(d) ==
    /\ dpc[d] = "lock"
    /\ sysLock = NoTask
    /\ sysLock' = d
    /\ di' = [di EXCEPT ![d] = 0]
    /\ dsnap' = [dsnap EXCEPT ![d] = Matching(0, dev[d].event_type)]
    /\ dpc' = [dpc EXCEPT ![d] = "loop"]
    /\ UNCHANGED << running, event_task_handle, total_events_posted, regVars,
                    pqVars, dev, dscan, dsub, ddone, dtouched, postVars,
                    histVars >>
    /\ UNCHANGED extVars

\* the event is done with: memory_pool_free(event.data), back to the while
Finish(d, taken) ==
    /\ frees' = memory_pool_free(frees, dev[d].data, taken)
    /\ dev' = [dev EXCEPT ![d] = NoEvent]
    /\ di' = [di EXCEPT ![d] = 0]
    /\ ddone' = [ddone EXCEPT ![d] = {}]
    /\ dsnap' = [dsnap EXCEPT ![d] = {}]
    /\ dtouched' = [dtouched EXCEPT ![d] = {}]
    /\ dpc' = [dpc EXCEPT ![d] = "check"]

\* system_lock() fails (the mutex stayed with another task for the whole
\* SYSTEM_SERVICE_MUTEX_TIMEOUT_MS): the event is freed and the loop continues
et_lock_fail(d) ==
    /\ dpc[d] = "lock"
    /\ \E taken \in BOOLEAN : Finish(d, taken)
    /\ UNCHANGED << ctlVars, regVars, pqVars, dscan, dsub, postVars, seen >>
    /\ UNCHANGED extVars

system_unlock_skipped(d) == d

\* the holder of ctx->mutex after system_unlock() by d
system_unlock(d) == NoTask

\* the for loop, with the lock held, up to the next matching subscription
\* (locals copied, system_unlock) or to the end of the table
\* (total_events_processed++, system_unlock, memory_pool_free)
et_loop(d) ==
    /\ dpc[d] = "loop"
    /\ sysLock = d
    /\ sysLock' = system_unlock(d)
    /\ IF Matching(di[d], dev[d].event_type) # {}
       THEN LET i == Min(Matching(di[d], dev[d].event_type))
            IN  /\ di' = [di EXCEPT ![d] = i]
                /\ dsub' = [dsub EXCEPT ![d] =
                              [slot |-> i,
                               subscriber_id |-> subscriptions[i].service_id,
                               stale |-> FALSE]]
                /\ dpc' = [dpc EXCEPT ![d] = "call"]
                /\ UNCHANGED << frees, dev, ddone, dsnap, dtouched >>
       ELSE /\ \E taken \in BOOLEAN : Finish(d, taken)
            /\ UNCHANGED dsub
    /\ UNCHANGED << running, event_task_handle, total_events_posted, regVars,
                    pqVars, dscan, postVars, seen >>
    /\ UNCHANGED extVars

\* handler_monitor_execute(handler, &event, user_data, subscriber_id): the
\* handler runs to completion on the dispatcher's stack; the monitor's
\* verdict (ESP_OK or ESP_ERR_EVENT_HANDLER_TIMEOUT) is only logged
et_call(d) ==
    /\ dpc[d] = "call"
    /\ ddone' = [ddone EXCEPT ![d] = @ \cup {dsub[d].slot}]
    /\ seen' = [seen EXCEPT ![dsub[d].subscriber_id][dev[d].priority] =
                   dev[d].id]
    /\ dsub' = [dsub EXCEPT ![d] = NoSub]
    /\ dpc' = [dpc EXCEPT ![d] = "relock"]
    /\ UNCHANGED << ctlVars, regVars, pqVars, dev, di, dscan, dsnap,
                    dtouched, postVars, frees >>
    /\ UNCHANGED extVars

NextIndexStuck(i) == i

\* the value of i after the loop's i++
NextIndex(i) == i + 1

\* system_lock() after the handler succeeds; i++
et_relock(d) ==
    /\ dpc[d] = "relock"
    /\ sysLock = NoTask
    /\ sysLock' = d
    /\ di' = [di EXCEPT ![d] = NextIndex(@)]
    /\ dpc' = [dpc EXCEPT ![d] = "loop"]
    /\ UNCHANGED << running, event_task_handle, total_events_posted, regVars,
                    pqVars, dev, dscan, dsub, ddone, dsnap, dtouched,
                    postVars, histVars >>
    /\ UNCHANGED extVars

\* system_lock() after the handler fails: 'break', then the code after the
\* loop (total_events_processed++, system_unlock, memory_pool_free)
et_relock_fail(d) ==
    /\ dpc[d] = "relock"
    /\ \E taken \in BOOLEAN : Finish(d, taken)
    /\ UNCHANGED << ctlVars, regVars, pqVars, dscan, dsub, postVars, seen >>
    /\ UNCHANGED extVars

(* ------------------------------------------------------------------ *)
(* Dependency graph (service_dependencies.c)                            *)
(* ------------------------------------------------------------------ *)
\* find_entry(service_name): index of the first entry of that name, 0 for
\* NULL
dep_find_entry(es, service_name) ==
    LET S == {i \in 1 .. Len(es) : es[i].service_name = service_name}
    IN  IF S = {} THEN 0 ELSE Min(S)

\* create_entry(service_name); the entries are left alone when the array
\* is full
create_entry(es, service_name) ==
    IF Len(es) >= MaxServices THEN es
    ELSE Append(es, [service_name |->
                         strncpy(service_name, SYSTEM_SERVICE_MAX_NAME_LEN - 1),
                     depends_on |-> << >>,
                     initialized |-> FALSE])

\* has_cycle_dfs(entry).  The visited and in_stack flags of the entries are
\* reset by dependencies_add before the search and read by nothing after it,
\* so they are carried in f and not kept in dep_entries.
RECURSIVE has_cycle_dfs(_, _, _)
RECURSIVE has_cycle_deps(_, _, _, _)
has_cycle_dfs(es, e, f) ==
    IF e \in f.in_stack THEN [f EXCEPT !.cycle = TRUE]
    ELSE IF e \in f.visited THEN [f EXCEPT !.cycle = FALSE]
    ELSE LET g == has_cycle_deps(es, e, 1,
                     [visited |-> f.visited \cup {e},
                      in_stack |-> f.in_stack \cup {e},
                      cycle |-> FALSE])
         IN  IF g.cycle THEN g ELSE [g EXCEPT !.in_stack = @ \ {e}]

\* its for loop over entry->depends_on[i .. dependency_count-1]
has_cycle_deps(es, e, i, f) ==
    IF i > Len(es[e].depends_on) THEN [f EXCEPT !.cycle = FALSE]
    ELSE LET dep == dep_find_entry(es, es[e].depends_on[i])
         IN  IF dep = 0 THEN has_cycle_deps(es, e, i + 1, f)
             ELSE LET g == has_cycle_dfs(es, dep, f)
                  IN  IF g.cycle THEN g
                      ELSE has_cycle_deps(es, e, i + 1, g)

\* the return value of dependencies_add(service_name, depends_on) and the
\* entries it leaves
dependencies_add_result(service_name, depends_on) ==
    LET es1 == IF dep_find_entry(dep_entries, service_name) = 0
               THEN create_entry(dep_entries, service_name)
               ELSE dep_entries
        e == IF dep_find_entry(dep_entries, service_name) # 0
             THEN dep_find_entry(dep_entries, service_name)
             ELSE IF Len(es1) > Len(dep_entries) THEN Len(es1) ELSE 0
    IN  IF e = 0
        THEN [ret |-> "ESP_ERR_NO_MEM", entries |-> dep_entries]
        ELSE IF \E i \in 1 .. Len(es1[e].depends_on) :
                   es1[e].depends_on[i] = depends_on
        THEN [ret |-> "ESP_OK", entries |-> es1]
        ELSE IF Len(es1[e].depends_on) >= MaxDependencies
        THEN [ret |-> "ESP_ERR_NO_MEM", entries |-> es1]
        ELSE LET es2 == [es1 EXCEPT ![e].depends_on =
                           Append(@, strncpy(depends_on,
                                             SYSTEM_SERVICE_MAX_NAME_LEN - 1))]
                 es3 == IF dep_find_entry(es2, depends_on) = 0
                        THEN create_entry(es2, depends_on)
                        ELSE es2
                 f == has_cycle_dfs(es3, e, [visited |-> {}, in_stack |-> {},
                                             cycle |-> FALSE])
             IN  IF f.cycle
                 THEN [ret |-> "ESP_ERR_SERVICE_CIRCULAR_DEPENDENCY",
                       entries |-> [es3 EXCEPT ![e].depends_on =
                                      SubSeq(@, 1, Len(@) - 1)]]
                 ELSE [ret |-> "ESP_OK", entries |-> es3]

dependencies_add(service_name, depends_on) ==
    /\ dep_entries' = dependencies_add_result(service_name, depends_on).entries
    /\ dep_call' = [op |-> "add", name |-> service_name,
                    depends_on |-> depends_on,
                    ret |-> dependencies_add_result(service_name,
                                                    depends_on).ret,
                    order |-> << >>, max_count |-> 0]
    /\ UNCHANGED dep_marked
    /\ UNCHANGED << ctlVars, regVars, pqVars, dispVars, postVars, histVars >>
    /\ UNCHANGED << quotaVars, trackers, wdTask, wdVars, poolVars, appVars >>

\* topo_sort_dfs(entry, order, &index); f holds the visited flags and the
\* order[] written so far
RECURSIVE topo_sort_dfs(_, _, _)
RECURSIVE topo_sort_deps(_, _, _, _)
\* (a traversal that writes the entry before its dependencies)
topo_sort_dfs_preorder(es, e, f) ==
    IF e \in f.visited THEN f
    ELSE topo_sort_deps(es, e, 1,
                        [f EXCEPT !.visited = @ \cup {e},
                                  !.order = Append(@, es[e].service_name)])

topo_sort_dfs(es, e, f) ==
    IF e \in f.visited THEN f
    ELSE LET g == topo_sort_deps(es, e, 1,
                                 [f EXCEPT !.visited = @ \cup {e}])
         IN  [g EXCEPT !.order = Append(@, es[e].service_name)]

\* its for loop over the dependencies
topo_sort_deps(es, e, i, f) ==
    IF i > Len(es[e].depends_on) THEN f
    ELSE LET dep == dep_find_entry(es, es[e].depends_on[i])
         IN  topo_sort_deps(es, e, i + 1,
                            IF dep = 0 THEN f ELSE topo_sort_dfs(es, dep, f))

\* the for loop of dependencies_get_init_order over all entries
RECURSIVE topo_sort_all(_, _, _)
topo_sort_all(es, i, f) ==
    IF i > Len(es) THEN f
    ELSE topo_sort_all(es, i + 1, topo_sort_dfs(es, i, f))

\* dependencies_get_init_order(order, max_count, &count): dep_call.order
\* is what the call writes through 'order', in the order of writing, and
\* its length is the value stored in *out_count.  max_count is not read;
\* what the writes past order[max_count - 1] overwrite is not modelled
dependencies_get_init_order(max_count) ==
    /\ dep_call' = [op |-> "get_init_order", name |-> "", depends_on |-> "",
                    ret |-> "ESP_OK",
                    order |-> topo_sort_all(dep_entries, 1,
                                 [visited |-> {}, order |-> <<>>]).order,
                    max_count |-> max_count]
    /\ UNCHANGED << dep_entries, dep_marked >>
    /\ UNCHANGED << ctlVars, regVars, pqVars, dispVars, postVars, histVars >>
    /\ UNCHANGED << quotaVars, trackers, wdTask, wdVars, poolVars, appVars >>

\* the return value of dependencies_check_ready(service_name)
check_ready_result(service_name) ==
    LET e == dep_find_entry(dep_entries, service_name)
    IN  IF e = 0 THEN "ESP_OK"
        ELSE IF \E i \in 1 .. Len(dep_entries[e].depends_on) :
                   LET dep == dep_find_entry(dep_entries,
                                             dep_entries[e].depends_on[i])
                   IN  dep = 0 \/ ~dep_entries[dep].initialized
        THEN "ESP_ERR_SERVICE_DEPENDENCY_FAILED"
        ELSE "ESP_OK"

dependencies_check_ready(service_name) ==
    /\ dep_call' = [op |-> "check_ready", name |-> service_name,
                    depends_on |-> "",
                    ret |-> check_ready_result(service_name),
                    order |-> << >>, max_count |-> 0]
    /\ UNCHANGED << dep_entries, dep_marked >>
    /\ UNCHANGED << ctlVars, regVars, pqVars, dispVars, postVars, histVars >>
    /\ UNCHANGED << quotaVars, trackers, wdTask, wdVars, poolVars, appVars >>

\* dependencies_mark_initialized(service_name): ESP_OK whether or not the
\* name has an entry
dependencies_mark_initialized(service_name) ==
    /\ LET e == dep_find_entry(dep_entries, service_name)
       IN  dep_entries' = IF e = 0 THEN dep_entries
                          ELSE [dep_entries EXCEPT ![e].initialized = TRUE]
    /\ dep_marked' = dep_marked \cup {service_name}
    /\ dep_call' = [op |-> "mark_initialized", name |-> service_name,
                    depends_on |-> "", ret |-> "ESP_OK",
                    order |-> << >>, max_count |-> 0]
    /\ UNCHANGED << ctlVars, regVars, pqVars, dispVars, postVars, histVars >>
    /\ UNCHANGED << quotaVars, trackers, wdTask, wdVars, poolVars, appVars >>

(* ------------------------------------------------------------------ *)
(* Dynamic loader (app_loader.c)                                        *)
(* ------------------------------------------------------------------ *)
\* The section sizes the sizing pass finds in an image (0: no such section)
Images == [code_size : {0, 1}, data_size : {0, 1}, bss_size : {0, 1}]

\* The step of app_loader_load_binary that fails, if any.
\* app_loader_resolve_symbols has one return, ESP_OK
LoadBinaryFails == {"none", "header", "code", "data", "bss", "reloc"}

\* The step of app_loader_load_from_partition that fails, if any
PartitionFails ==
    {"none", "partition", "elf_buffer", "read", "code", "data", "bss",
     "reloc"}

\* What a loader call works on: the handle, the heap, and the regions the
\* call has allocated and released so far
LoaderState ==
    [app |-> loaded_app, heap |-> ldr_heap, freed |-> ldr_freed,
     brk |-> ldr_brk, made |-> {}, released |-> {}, unmapped |-> 0]

\* a malloc that succeeds; the fresh region is m.brk + 1
ldr_malloc(m) ==
    [m EXCEPT !.heap = @ \cup {m.brk + 1}, !.brk = @ + 1,
              !.made = @ \cup {m.brk + 1}]

\* app->field = heap_caps_malloc(...), not NULL
ldr_malloc_into(m, field) ==
    [ldr_malloc(m) EXCEPT !.app = [@ EXCEPT ![field] = m.brk + 1]]

\* free(ptr)
ldr_free(m, ptr) ==
    [m EXCEPT !.heap = @ \ {ptr}, !.freed[ptr] = @ + 1,
              !.released = @ \cup {ptr}]

\* if (ptr) free(ptr)
ldr_free_if(m, ptr) == IF ptr # 0 THEN ldr_free(m, ptr) ELSE m

\* the first pass of load_sections: app->*_size += shdr->sh_size
ldr_sizes(m, image) ==
    [m EXCEPT !.app = [@ EXCEPT !.code_size = @ + image.code_size,
                                !.data_size = @ + image.data_size,
                                !.bss_size = @ + image.bss_size]]

load_sections(m, image, fail) ==
    LET m0 == ldr_sizes(m, image)
        m1 == IF m0.app.code_size > 0
              THEN ldr_malloc_into(m0, "code_segment") ELSE m0
        m2 == IF m1.app.data_size > 0
              THEN ldr_malloc_into(m1, "data_segment") ELSE m1
        m3 == IF m2.app.bss_size > 0
              THEN ldr_malloc_into(m2, "bss_segment") ELSE m2
    IN  IF m0.app.code_size > 0 /\ fail = "code"
        THEN [m |-> m0, ret |-> "ESP_ERR_NO_MEM"]
        ELSE IF m1.app.data_size > 0 /\ fail = "data"
        THEN [m |-> ldr_free_if(m1, m1.app.code_segment),
              ret |-> "ESP_ERR_NO_MEM"]
        ELSE IF m2.app.bss_size > 0 /\ fail = "bss"
        THEN [m |-> ldr_free_if(ldr_free_if(m2, m2.app.code_segment),
                                m2.app.data_segment),
              ret |-> "ESP_ERR_NO_MEM"]
        ELSE [m |-> [m3 EXCEPT !.app = [@ EXCEPT !.entry_point =
                                                    m3.app.code_segment]],
              ret |-> "ESP_OK"]

\* load_sections_hybrid: the same three placements; the entry point is
\* set later, by app_loader_resolve_symbols
load_sections_hybrid(m, image, fail) ==
    LET m0 == ldr_sizes(m, image)
        m1 == IF m0.app.code_size > 0
              THEN ldr_malloc_into(m0, "code_segment") ELSE m0
        m2 == IF m1.app.data_size > 0
              THEN ldr_malloc_into(m1, "data_segment") ELSE m1
        m3 == IF m2.app.bss_size > 0
              THEN ldr_malloc_into(m2, "bss_segment") ELSE m2
    IN  IF m0.app.code_size > 0 /\ fail = "code"
        THEN [m |-> m0, ret |-> "ESP_ERR_NO_MEM"]
        ELSE IF m1.app.data_size > 0 /\ fail = "data"
        THEN [m |-> ldr_free_if(m1, m1.app.code_segment),
              ret |-> "ESP_ERR_NO_MEM"]
        ELSE IF m2.app.bss_size > 0 /\ fail = "bss"
        THEN [m |-> ldr_free_if(ldr_free_if(m2, m2.app.data_segment),
                                m2.app.code_segment),
              ret |-> "ESP_ERR_NO_MEM"]
        ELSE [m |-> m3, ret |-> "ESP_OK"]

\* app_loader_unload without its last free
unload_keeps_bss(m) ==
    LET a == m.app
        m1 == IF a.code_in_flash /\ a.mmap_handle # 0
              THEN [m EXCEPT !.unmapped = a.mmap_handle]
              ELSE IF a.psram_data_buf # 0
                   THEN ldr_free(m, a.psram_data_buf)
                   ELSE ldr_free_if(m, a.code_segment)
        m2 == ldr_free_if(m1, a.data_segment)
    IN  [m2 EXCEPT !.app = ZeroApp]
\* the body of app_loader_unload
unload(m) ==
    LET a == m.app
        m1 == IF a.code_in_flash /\ a.mmap_handle # 0
              THEN [m EXCEPT !.unmapped = a.mmap_handle]
              ELSE IF a.psram_data_buf # 0
                   THEN ldr_free(m, a.psram_data_buf)
                   ELSE ldr_free_if(m, a.code_segment)
        m2 == ldr_free_if(m1, a.data_segment)
        m3 == ldr_free_if(m2, a.bss_segment)
    IN  [m3 EXCEPT !.app = ZeroApp]

\* the body of app_loader_load_binary
load_binary(m, image, fail) ==
    LET m0 == [m EXCEPT !.app = ZeroApp]
        ls == load_sections(m0, image, fail)
    IN  IF fail = "header" THEN [m |-> m0, ret |-> "ESP_ERR_INVALID_ARG"]
        ELSE IF ls.ret # "ESP_OK" THEN ls
        ELSE IF fail = "reloc"
        THEN [m |-> unload(ls.m), ret |-> "ESP_ERR_NOT_FOUND"]
        ELSE [m |-> ls.m, ret |-> "ESP_OK"]

\* app_loader_load_binary_hybrid as its one caller uses it:
\* code_flash_ptr = NULL and mmap_handle = 0.  The header it parses is the
\* one app_loader_load_from_partition has validated
load_binary_hybrid(m, image, fail) ==
    LET m0 == [m EXCEPT !.app = ZeroApp]
        ls == load_sections_hybrid(m0, image, fail)
        a == ls.m.app
        undo == ldr_free_if(
                    ldr_free_if(
                        IF a.psram_data_buf # 0
                        THEN ldr_free(ls.m, a.psram_data_buf)
                        ELSE ldr_free_if(ls.m, a.code_segment),
                        a.data_segment),
                    a.bss_segment)
    IN  IF ls.ret # "ESP_OK" THEN ls
        ELSE IF fail = "reloc"
        THEN [m |-> undo, ret |-> "ESP_ERR_NOT_FOUND"]
        ELSE [m |-> [ls.m EXCEPT !.app = [@ EXCEPT !.entry_point =
                                                     a.code_segment]],
              ret |-> "ESP_OK"]

\* the body of app_loader_load_from_partition; elf_buffer is m.brk + 1
load_from_partition(m, image, fail) ==
    LET mb == ldr_malloc(m)
        h == load_binary_hybrid(mb, image, fail)
    IN  IF fail = "partition" THEN [m |-> m, ret |-> "ESP_ERR_NOT_FOUND"]
        ELSE IF fail = "elf_buffer" THEN [m |-> m, ret |-> "ESP_ERR_NO_MEM"]
        ELSE IF fail = "read"
        THEN [m |-> ldr_free(mb, m.brk + 1), ret |-> "ESP_FAIL"]
        ELSE [m |-> ldr_free(h.m, m.brk + 1), ret |-> h.ret]

\* a loader call returns: its effects on the handle and the heap
LoaderReturn(op, res) ==
    /\ sysLock = NoTask
    /\ loaded_app' = res.m.app
    /\ ldr_heap' = res.m.heap
    /\ ldr_freed' = res.m.freed
    /\ ldr_brk' = res.m.brk
    /\ ldr_made' = IF op = "unload" THEN ldr_made ELSE res.m.made
    /\ ldr_call' = [op |-> op, ret |-> res.ret,
                    released |-> res.m.released,
                    unmapped |-> res.m.unmapped,
                    prev |-> [op |-> ldr_call.op, ret |-> ldr_call.ret]]
    /\ UNCHANGED << ctlVars, regVars, pqVars, dispVars, postVars, histVars >>
    /\ UNCHANGED << quotaVars, trackers, wdTask, wdVars, depVars, poolVars >>
    /\ UNCHANGED << refVars, reqVars >>

app_loader_load_binary(image, fail) ==
    /\ ldr_brk + 4 <= MaxRegions
    /\ LoaderReturn("load", load_binary(LoaderState, image, fail))

app_loader_load_from_partition(image, fail) ==
    /\ ldr_brk + 4 <= MaxRegions
    /\ LoaderReturn("load", load_from_partition(LoaderState, image, fail))

app_loader_unload ==
    LoaderReturn("unload", [m |-> unload(LoaderState), ret |-> "ESP_OK"])

(* ------------------------------------------------------------------ *)
(* App context reference counts (app_context_refcount.c)                *)
(* ------------------------------------------------------------------ *)
find_context(cs, service_id) ==
    {i \in ServiceIds : cs[i].valid /\ cs[i].service_id = service_id}

\* get_or_create_context: the table afterwards
get_or_create_context(cs, service_id) ==
    IF find_context(cs, service_id) # {} \/ \A i \in ServiceIds : cs[i].valid
    THEN cs
    ELSE [cs EXCEPT ![Min({i \in ServiceIds : ~cs[i].valid})] =
            [service_id |-> service_id, refcount |-> 0, valid |-> TRUE,
             marked_for_deletion |-> FALSE]]

\* a call on the context table returns ESP_OK
ContextReturn(op, service_id, cs) ==
    /\ sysLock = NoTask
    /\ g_contexts' = cs
    /\ ctx_call' = [op |-> op, service_id |-> service_id]
    /\ UNCHANGED << ctlVars, regVars, pqVars, dispVars, postVars, histVars >>
    /\ UNCHANGED << quotaVars, trackers, wdTask, wdVars, depVars, poolVars >>
    /\ UNCHANGED << ldrVars, reqVars >>

app_context_acquire(service_id) ==
    LET cs == get_or_create_context(g_contexts, service_id)
        found == find_context(cs, service_id)
    IN  /\ found # {}
        /\ ~cs[Min(found)].marked_for_deletion
        /\ cs[Min(found)].refcount < MaxRefs
        /\ ContextReturn("acquire", service_id,
                         [cs EXCEPT ![Min(found)].refcount = @ + 1])

\* app_context_release that deletes whenever the count reaches zero
release_unmarked(ctx) ==
    IF ctx.refcount > 0
    THEN IF ctx.refcount - 1 = 0
         THEN [ctx EXCEPT !.refcount = 0, !.valid = FALSE,
                          !.marked_for_deletion = FALSE]
         ELSE [ctx EXCEPT !.refcount = @ - 1]
    ELSE ctx
\* what app_context_release does to the context it found
release(ctx) ==
    IF ctx.refcount > 0
    THEN IF ctx.refcount - 1 = 0 /\ ctx.marked_for_deletion
         THEN [ctx EXCEPT !.refcount = 0, !.valid = FALSE,
                          !.marked_for_deletion = FALSE]
         ELSE [ctx EXCEPT !.refcount = @ - 1]
    ELSE ctx

app_context_release(service_id) ==
    LET found == find_context(g_contexts, service_id)
    IN  /\ found # {}
        /\ ContextReturn("release", service_id,
                         [g_contexts EXCEPT ![Min(found)] = release(@)])

app_context_mark_for_deletion(service_id) ==
    LET found == find_context(g_contexts, service_id)
    IN  /\ found # {}
        /\ ContextReturn("mark_for_deletion", service_id,
              [g_contexts EXCEPT ![Min(found)] =
                  IF @.refcount = 0
                  THEN [@ EXCEPT !.valid = FALSE,
                                 !.marked_for_deletion = FALSE]
                  ELSE [@ EXCEPT !.marked_for_deletion = TRUE]])

(* ------------------------------------------------------------------ *)
(* Request / response (request_response.c)                              *)
(* ------------------------------------------------------------------ *)
\* A step is one critical section of g_requests_mutex or the code between
\* two of them.  response_sem is "NULL", or a binary semaphore that is
\* "empty", "given" or "deleted"
find_request(request_id) ==
    {i \in ReqSlots : g_pending_requests[i].active
                        /\ g_pending_requests[i].request_id = request_id}

\* the slot allocate_request_slot returns, 0 for NULL
allocate_request_slot ==
    IF \A i \in ReqSlots : g_pending_requests[i].active THEN 0
    ELSE Min({i \in ReqSlots : ~g_pending_requests[i].active})

\* the request has been answered, has timed out or was cancelled
Completed(request_id) ==
    rq_status[request_id] \in {"answered", "timed_out", "cancelled"}

\* the rest of the state, which request_response.c does not touch
OnlyRequests ==
    /\ sysLock = NoTask
    /\ UNCHANGED << ctlVars, regVars, pqVars, dispVars, postVars, histVars >>
    /\ UNCHANGED << quotaVars, trackers, wdTask, wdVars, depVars, poolVars >>
    /\ UNCHANGED << ldrVars, refVars >>

\* request_send_async; posted: system_event_post returned ESP_OK
request_send_async(posted) ==
    /\ g_next_request_id <= MaxRequests
    /\ g_next_request_id' = g_next_request_id + 1
    /\ LET slot == allocate_request_slot
           id == g_next_request_id
       IN  IF slot = 0
           THEN UNCHANGED << g_pending_requests, rq_status >>
           ELSE /\ g_pending_requests' =
                     [g_pending_requests EXCEPT ![slot] =
                         [@ EXCEPT !.active = posted, !.request_id = id,
                                   !.response_sem = "NULL",
                                   !.callback = TRUE]]
                /\ rq_status' = [rq_status EXCEPT ![id] =
                                    IF posted THEN "pending" ELSE "failed"]
    /\ UNCHANGED << rq_pc, rs_pc >>
    /\ OnlyRequests

\* request_send_sync up to the wait for the response
sync_send(posted) ==
    /\ rq_pc.pc = "idle"
    /\ g_next_request_id <= MaxRequests
    /\ g_next_request_id' = g_next_request_id + 1
    /\ LET slot == allocate_request_slot
           id == g_next_request_id
       IN  IF slot = 0
           THEN UNCHANGED << g_pending_requests, rq_status, rq_pc >>
           ELSE /\ g_pending_requests' =
                     [g_pending_requests EXCEPT ![slot] =
                         [active |-> posted, request_id |-> id,
                          response_sem |->
                              IF posted THEN "empty" ELSE "deleted",
                          callback |-> FALSE, response_size |-> 0]]
                /\ rq_status' = [rq_status EXCEPT ![id] =
                                    IF posted THEN "pending" ELSE "failed"]
                /\ rq_pc' = IF posted
                            THEN [pc |-> "wait", slot |-> slot, id |-> id]
                            ELSE rq_pc
    /\ UNCHANGED rs_pc
    /\ OnlyRequests

\* xSemaphoreTake(req->response_sem, timeout) returns pdTRUE, and the
\* cleanup.  The take of a deleted semaphore returns either way
sync_wake ==
    /\ rq_pc.pc = "wait"
    /\ g_pending_requests[rq_pc.slot].response_sem \in {"given", "deleted"}
    /\ g_pending_requests' =
          [g_pending_requests EXCEPT ![rq_pc.slot] =
              [@ EXCEPT !.response_sem = "deleted", !.active = FALSE]]
    /\ rq_pc' = [pc |-> "idle", slot |-> 0, id |-> 0]
    /\ UNCHANGED << g_next_request_id, rs_pc, rq_status >>
    /\ OnlyRequests

\* that take returns pdFALSE: no response within timeout_ms
sync_timeout ==
    /\ rq_pc.pc = "wait"
    /\ g_pending_requests[rq_pc.slot].response_sem \in {"empty", "deleted"}
    /\ rq_pc' = [rq_pc EXCEPT !.pc = "expired"]
    /\ rq_status' = [rq_status EXCEPT ![rq_pc.id] =
                        IF @ = "pending" THEN "timed_out" ELSE @]
    /\ UNCHANGED << g_pending_requests, g_next_request_id, rs_pc >>
    /\ OnlyRequests

\* vSemaphoreDelete(req->response_sem); req->active = false
sync_expire ==
    /\ rq_pc.pc = "expired"
    /\ g_pending_requests' =
          [g_pending_requests EXCEPT ![rq_pc.slot] =
              [@ EXCEPT !.response_sem = "deleted", !.active = FALSE]]
    /\ rq_pc' = [pc |-> "idle", slot |-> 0, id |-> 0]
    /\ UNCHANGED << g_next_request_id, rs_pc, rq_status >>
    /\ OnlyRequests

request_cancel(request_id) ==
    /\ find_request(request_id) # {}
    /\ g_pending_requests' =
          [g_pending_requests EXCEPT ![Min(find_request(request_id))] =
              [@ EXCEPT !.response_sem =
                            IF @ = "NULL" THEN "NULL" ELSE "deleted",
                        !.active = FALSE]]
    /\ rq_status' = [rq_status EXCEPT ![request_id] =
                        IF @ = "pending" THEN "cancelled" ELSE @]
    /\ UNCHANGED << g_next_request_id, rq_pc, rs_pc >>
    /\ OnlyRequests

\* request_send_response(request_id, ...) under g_requests_mutex: the
\* look-up and, for a sync request, the copy into the requester's buffer
resp_lookup(p, request_id) ==
    /\ rs_pc[p].pc = "idle"
    /\ rq_status[request_id] # "none"
    /\ find_request(request_id) # {}
    /\ LET slot == Min(find_request(request_id))
           req == g_pending_requests[slot]
       IN  /\ rs_pc' = [rs_pc EXCEPT ![p] =
                          [pc |-> IF req.callback THEN "callback"
                                  ELSE "signal",
                           slot |-> slot, id |-> request_id,
                           late |-> Completed(request_id)]]
           /\ g_pending_requests' =
                 IF req.callback THEN g_pending_requests
                 ELSE [g_pending_requests EXCEPT ![slot].response_size = 1]
    /\ UNCHANGED << g_next_request_id, rq_pc, rq_status >>
    /\ OnlyRequests

\* req->callback(request_id, ...), outside the mutex
resp_callback(p) ==
    /\ rs_pc[p].pc = "callback"
    /\ rs_pc' = [rs_pc EXCEPT ![p].pc = "finish"]
    /\ rq_status' = [rq_status EXCEPT ![rs_pc[p].id] =
                        IF @ = "pending" THEN "answered" ELSE @]
    /\ UNCHANGED << g_pending_requests, g_next_request_id, rq_pc >>
    /\ OnlyRequests

\* the second take of g_requests_mutex and req->active = false
resp_finish(p, got) ==
    /\ rs_pc[p].pc = "finish"
    /\ g_pending_requests' =
          IF got
          THEN [g_pending_requests EXCEPT ![rs_pc[p].slot].active = FALSE]
          ELSE g_pending_requests
    /\ rs_pc' = [rs_pc EXCEPT ![p] =
                   [pc |-> "idle", slot |-> 0, id |-> 0, late |-> FALSE]]
    /\ UNCHANGED << g_next_request_id, rq_pc, rq_status >>
    /\ OnlyRequests

\* xSemaphoreGive(req->response_sem), outside the mutex
resp_signal(p) ==
    /\ rs_pc[p].pc = "signal"
    /\ g_pending_requests' =
          [g_pending_requests EXCEPT ![rs_pc[p].slot].response_sem =
              IF @ = "empty" THEN "given" ELSE @]
    /\ rs_pc' = [rs_pc EXCEPT ![p] =
                   [pc |-> "idle", slot |-> 0, id |-> 0, late |-> FALSE]]
    /\ rq_status' = [rq_status EXCEPT ![rs_pc[p].id] =
                        IF @ = "pending" THEN "answered" ELSE @]
    /\ UNCHANGED << g_next_request_id, rq_pc >>
    /\ OnlyRequests

(* ------------------------------------------------------------------ *)
(* Specifications                                                       *)
(* ------------------------------------------------------------------ *)
\* Whole runtime from the state left by system_service_init
Next ==
    \/ \E n \in ServiceNames : system_service_register(n)
    \/ \E s \in ServiceIds : system_service_unregister(s)
    \/ \E n \in EventNames : system_event_register_type(n)
    \/ \E s \in ServiceIds, t \in EventTypeIds : system_event_subscribe(s, t)
    \/ \E s \in ServiceIds, t \in EventTypeIds : system_event_unsubscribe(s, t)
    \/ system_service_start
    \/ system_service_stop
    \/ \E t \in Posters, s \in ServiceIds, y \in EventTypeIds, p \in Priorities :
          post_begin(t, s, y, p, MaxPosts)
    \/ \E t \in Posters : pq_send(t)
    \/ \E t \in Posters : pq_overflow(t)
    \/ \E t \in Posters : pq_retry(t)
    \/ \E d \in Dispatchers : et_check(d)
    \/ \E d \in Dispatchers : et_poll(d)
    \/ \E d \in Dispatchers : et_delay(d)
    \/ \E d \in Dispatchers : et_receive_timeout(d)
    \/ \E d \in Dispatchers : et_lock(d)
    \/ \E d \in Dispatchers : et_lock_fail(d)
    \/ \E d \in Dispatchers : et_loop(d)
    \/ \E d \in Dispatchers : et_call(d)
    \/ \E d \in Dispatchers : et_relock(d)
    \/ \E d \in Dispatchers : et_relock_fail(d)
    \/ \E s \in ServiceIds : app_lifecycle_unsubscribe_all(s)
    \/ \E s \in ServiceIds : quota_set(s, MaxEventsPerSec, MaxSubscribers)
    \/ quota_reset_counters
    \/ \E t \in Posters, s \in ServiceIds :
          quota_check_event_post(t, s, MaxPosts)
    \/ \E t \in Posters : post_not_found(t)
    \/ \E t \in Posters : quota_record_event_post(t)
    \/ Tick
    \/ \E s \in Heartbeaters : system_service_heartbeat(s)
    \/ \E s \in ServiceIds, c \in WdConfigs : watchdog_register_service(s, c)
    \/ wd_check
    \/ wd_take_fail
    \/ wd_scan
    \/ wd_get_info
    \/ wd_get_info_fail
    \/ wd_set_state
    \/ wd_delay
    \/ \E n \in DepNames, m \in DepNames : dependencies_add(n, m)
    \/ \E max_count \in 1 .. MaxServices :
          dependencies_get_init_order(max_count)
    \/ \E n \in DepNames : dependencies_check_ready(n)
    \/ \E n \in DepNames : dependencies_mark_initialized(n)
    \/ \E oversize \in BOOLEAN : pool_alloc(oversize)
    \/ \E ptr \in PoolBlockIds \cup HeapIds : pool_free(ptr)
    \/ \E image \in Images, fail \in LoadBinaryFails :
          app_loader_load_binary(image, fail)
    \/ \E image \in Images, fail \in PartitionFails :
          app_loader_load_from_partition(image, fail)
    \/ app_loader_unload
    \/ \E s \in ServiceIds : app_context_acquire(s)
    \/ \E s \in ServiceIds : app_context_release(s)
    \/ \E s \in ServiceIds : app_context_mark_for_deletion(s)
    \/ \E s \in ServiceIds : watchdog_enable_service(s)
    \/ \E s \in ServiceIds : watchdog_disable_service(s)
    \/ \E posted \in BOOLEAN : request_send_async(posted)
    \/ \E posted \in BOOLEAN : sync_send(posted)
    \/ sync_wake
    \/ sync_timeout
    \/ sync_expire
    \/ \E r \in RequestIds : request_cancel(r)
    \/ \E p \in Responders, r \in RequestIds : resp_lookup(p, r)
    \/ \E p \in Responders : resp_callback(p)
    \/ \E p \in Responders, got \in BOOLEAN : resp_finish(p, got)
    \/ \E p \in Responders : resp_signal(p)

Spec == Init /\ [][Next]_vars

\* The tables after boot: services "sensor" (id 0) and "display" (id 1) and
\* event type "temp" (id 0) registered
Booted ==
    /\ services = [s \in ServiceIds |->
                     IF s = 0 THEN [registered |-> TRUE, name |-> "sensor",
                                    state |-> "REGISTERED"]
                     ELSE IF s = 1 THEN [registered |-> TRUE, name |-> "display",
                                         state |-> "REGISTERED"]
                     ELSE EmptyService]
    /\ service_count = 2
    /\ event_types = [t \in EventTypeIds |->
                        IF t = 0 THEN [registered |-> TRUE, event_name |-> "temp"]
                        ELSE EmptyEventType]
    /\ event_type_count = 1

Quiet ==
    /\ total_events_posted = 0
    /\ sysLock = NoTask
    /\ queues = [p \in Priorities |-> << >>]
    /\ pqMutex = NoTask
    /\ sequence_counter = 0
    /\ stats = [high_priority_overflows |-> 0,
                normal_priority_overflows |-> 0,
                low_priority_overflows |-> 0,
                low_priority_drops |-> 0]
    /\ dev = [d \in Dispatchers |-> NoEvent]
    /\ di = [d \in Dispatchers |-> 0]
    /\ dscan = [d \in Dispatchers |-> 1]
    /\ dsub = [d \in Dispatchers |-> NoSub]
    /\ ddone = [d \in Dispatchers |-> {}]
    /\ dsnap = [d \in Dispatchers |-> {}]
    /\ dtouched = [d \in Dispatchers |-> {}]
    /\ ppc = [p \in Posters |-> "idle"]
    /\ pev = [p \in Posters |-> NoEvent]
    /\ pret = [p \in Posters |-> "NONE"]
    /\ psender = [p \in Posters |-> 0]
    /\ frees = [e \in EventIds |-> 0]
    /\ seen = [s \in ServiceIds |-> NeverSeen]
    /\ NoQuota
    /\ NoTrackers
    /\ NoWatchdog
    /\ NoDependencies
    /\ FreshPools
    /\ NoApp
    /\ NoContexts
    /\ NoRequests

\* after system_service_start: one event_task, about to test ctx->running
Started ==
    /\ running = TRUE
    /\ event_task_handle = "et1"
    /\ dpc = [d \in Dispatchers |-> IF d = "et1" THEN "check" ELSE "none"]
    /\ wdRunning = TRUE
    /\ wpc = "check"

\* One dispatcher, one task posting CRITICAL events as service 0, and the
\* registry and subscription calls of the services running beside them;
\* "display" is the service that registers again after an unregister
InitDispatch ==
    /\ Booted
    /\ subscriptions = [i \in SubSlots |-> EmptySubscription]
    /\ subscription_count = 0
    /\ Started
    /\ Quiet

NextDispatch ==
    \/ system_service_register("display")
    \/ \E s \in ServiceIds : system_service_unregister(s)
    \/ \E s \in ServiceIds, t \in EventTypeIds : system_event_subscribe(s, t)
    \/ \E s \in ServiceIds, t \in EventTypeIds : system_event_unsubscribe(s, t)
    \/ \E y \in EventTypeIds :
          post_begin("p1", 0, y, SYSTEM_EVENT_PRIORITY_CRITICAL, MaxPosts)
    \/ pq_send("p1")
    \/ pq_overflow("p1")
    \/ \E d \in Dispatchers : et_check(d)
    \/ \E d \in Dispatchers : et_poll(d)
    \/ \E d \in Dispatchers : et_delay(d)
    \/ \E d \in Dispatchers : et_receive_timeout(d)
    \/ \E d \in Dispatchers : et_lock(d)
    \/ \E d \in Dispatchers : et_lock_fail(d)
    \/ \E d \in Dispatchers : et_loop(d)
    \/ \E d \in Dispatchers : et_call(d)
    \/ \E d \in Dispatchers : et_relock(d)
    \/ \E d \in Dispatchers : et_relock_fail(d)

SpecDispatch == InitDispatch /\ [][NextDispatch]_vars

\* Start and stop of the runtime around one posting task; "display" is
\* subscribed to "temp"
InitTasks ==
    /\ Booted
    /\ subscriptions = [i \in SubSlots |->
                          IF i = 0 THEN [active |-> TRUE, service_id |-> 1,
                                         event_type |-> 0]
                          ELSE EmptySubscription]
    /\ subscription_count = 1
    /\ running = FALSE
    /\ event_task_handle = NoTask
    /\ dpc = [d \in Dispatchers |-> "none"]
    /\ wdRunning = FALSE
    /\ wpc = "none"
    /\ Quiet

NextTasks ==
    \/ system_service_start
    \/ system_service_stop
    \/ \E s \in ServiceIds, y \in EventTypeIds,
          p \in {SYSTEM_EVENT_PRIORITY_NORMAL, SYSTEM_EVENT_PRIORITY_HIGH} :
          post_begin("p1", s, y, p, MaxPosts)
    \/ pq_send("p1")
    \/ pq_overflow("p1")
    \/ \E d \in Dispatchers : et_check(d)
    \/ \E d \in Dispatchers : et_poll(d)
    \/ \E d \in Dispatchers : et_delay(d)
    \/ \E d \in Dispatchers : et_receive_timeout(d)
    \/ \E d \in Dispatchers : et_lock(d)
    \/ \E d \in Dispatchers : et_lock_fail(d)
    \/ \E d \in Dispatchers : et_loop(d)
    \/ \E d \in Dispatchers : et_call(d)
    \/ \E d \in Dispatchers : et_relock(d)
    \/ \E d \in Dispatchers : et_relock_fail(d)

SpecTasks == InitTasks /\ [][NextTasks]_vars

\* Two posting tasks of LOW events against one dispatcher, nobody subscribed
InitPQ ==
    /\ Booted
    /\ subscriptions = [i \in SubSlots |-> EmptySubscription]
    /\ subscription_count = 0
    /\ Started
    /\ Quiet

NextPQ ==
    \/ \E t \in Posters, s \in ServiceIds, y \in EventTypeIds :
          post_begin(t, s, y, SYSTEM_EVENT_PRIORITY_LOW,
                     LowQueueSize + MaxPosts)
    \/ \E t \in Posters : pq_send(t)
    \/ \E t \in Posters : pq_overflow(t)
    \/ \E t \in Posters : pq_retry(t)
    \/ \E d \in Dispatchers : et_check(d)
    \/ \E d \in Dispatchers : et_poll(d)
    \/ \E d \in Dispatchers : et_delay(d)
    \/ \E d \in Dispatchers : et_receive_timeout(d)
    \/ \E d \in Dispatchers : et_lock(d)
    \/ \E d \in Dispatchers : et_lock_fail(d)
    \/ \E d \in Dispatchers : et_loop(d)

SpecPQ == InitPQ /\ [][NextPQ]_vars

\* Two tasks posting LOW events for principals under an event-rate quota,
\* beside the registry calls; the dispatcher is not scheduled
InitQuota ==
    /\ Booted
    /\ subscriptions = [i \in SubSlots |-> EmptySubscription]
    /\ subscription_count = 0
    /\ Started
    /\ Quiet

NextQuota ==
    \/ \E s \in ServiceIds :  \* a service sets its quota before it posts
          /\ \A t \in Posters : ppc[t] = "idle"
          /\ quota_set(s, MaxEventsPerSec, MaxSubscribers)
    \/ quota_reset_counters
    \/ \E n \in ServiceNames : system_service_register(n)
    \/ \E s \in ServiceIds : system_service_unregister(s)
    \/ \E t \in Posters, s \in ServiceIds :
          quota_check_event_post(t, s, LowQueueSize + 1)
    \/ \E t \in Posters, s \in ServiceIds :
          post_begin(t, s, 0, SYSTEM_EVENT_PRIORITY_LOW, LowQueueSize + 1)
    \/ \E t \in Posters : post_not_found(t)
    \/ \E t \in Posters : pq_send(t)
    \/ \E t \in Posters : pq_overflow(t)
    \/ \E t \in Posters : pq_retry(t)
    \/ \E t \in Posters : quota_record_event_post(t)

SpecQuota == InitQuota /\ [][NextQuota]_vars

\* The watchdog task beside the services: "sensor" heartbeats, "display"
\* never does
InitWatchdog ==
    /\ Booted
    /\ subscriptions = [i \in SubSlots |-> EmptySubscription]
    /\ subscription_count = 0
    /\ Started
    /\ Quiet

NextWatchdog ==
    \/ Tick
    \/ \E s \in Heartbeaters : system_service_heartbeat(s)
    \/ \E s \in ServiceIds, c \in WdConfigs : watchdog_register_service(s, c)
    \/ wd_check
    \/ wd_take_fail
    \/ wd_scan
    \/ wd_get_info
    \/ wd_get_info_fail
    \/ wd_set_state
    \/ wd_delay

SpecWatchdog == InitWatchdog /\ [][NextWatchdog]_vars

\* The registry and subscription calls on the tables left by
\* system_service_init
NextTables ==
    \/ \E n \in ServiceNames : system_service_register(n)
    \/ \E s \in ServiceIds : system_service_unregister(s)
    \/ \E n \in EventNames : system_event_register_type(n)
    \/ \E s \in ServiceIds, t \in EventTypeIds : system_event_subscribe(s, t)
    \/ \E s \in ServiceIds, t \in EventTypeIds : system_event_unsubscribe(s, t)
    \/ \E s \in ServiceIds : app_lifecycle_unsubscribe_all(s)

SpecTables == Init /\ [][NextTables]_vars

\* The dependency graph calls on the graph left by dependencies_init
NextDependencies ==
    \/ \E n \in DepNames, m \in DepNames : dependencies_add(n, m)
    \/ \E max_count \in 1 .. MaxServices :
          dependencies_get_init_order(max_count)
    \/ \E n \in DepNames : dependencies_check_ready(n)
    \/ \E n \in DepNames : dependencies_mark_initialized(n)

SpecDependencies == Init /\ [][NextDependencies]_vars

\* A client of the memory pool on the pools left by memory_pool_init
NextPool ==
    \/ \E oversize \in BOOLEAN : pool_alloc(oversize)
    \/ \E ptr \in PoolBlockIds \cup HeapIds : pool_free(ptr)

SpecPool == Init /\ [][NextPool]_vars

\* The registry and event bus calls with names of any length
NextNames ==
    \/ \E n \in ServiceNameArgs : system_service_register(n)
    \/ \E s \in ServiceIds : system_service_unregister(s)
    \/ \E n \in EventNameArgs : system_event_register_type(n)
    \/ \E s \in ServiceIds, t \in EventTypeIds : system_event_subscribe(s, t)
    \/ \E s \in ServiceIds, t \in EventTypeIds : system_event_unsubscribe(s, t)

SpecNames == Init /\ [][NextNames]_vars

\* The registry and subscription calls of one service, "sensor" (id 0),
\* which is given a subscription quota
NextSubscriptions ==
    \/ system_service_register("sensor")
    \/ \E s \in ServiceIds : system_service_unregister(s)
    \/ \E n \in EventNames : system_event_register_type(n)
    \/ \E subs \in 1 .. MaxSubscribers : quota_set(0, MaxEventsPerSec, subs)
    \/ \E s \in ServiceIds, t \in EventTypeIds : system_event_subscribe(s, t)
    \/ \E s \in ServiceIds, t \in EventTypeIds : system_event_unsubscribe(s, t)

SpecSubscriptions == Init /\ [][NextSubscriptions]_vars

\* The life cycle calls of the registry, next to the interning of event
\* types
NextStates ==
    \/ \E n \in ServiceNames : system_service_register(n)
    \/ \E n \in EventNames : system_event_register_type(n)
    \/ \E s \in ServiceIds : system_service_unregister(s)
    \/ \E s \in ServiceIds, st \in ServiceStates :
          system_service_set_state(s, st)

SpecStates == Init /\ [][NextStates]_vars

\* The loader's client: loads into one handle and unloads it
NextLoader ==
    \/ \E image \in Images, fail \in LoadBinaryFails :
          app_loader_load_binary(image, fail)
    \/ \E image \in Images, fail \in PartitionFails :
          app_loader_load_from_partition(image, fail)
    \/ app_loader_unload

SpecLoader == Init /\ [][NextLoader]_vars

\* The holders of app contexts
NextContexts ==
    \/ \E s \in ServiceIds : app_context_acquire(s)
    \/ \E s \in ServiceIds : app_context_release(s)
    \/ \E s \in ServiceIds : app_context_mark_for_deletion(s)

SpecContexts == Init /\ [][NextContexts]_vars

\* The services' calls on their watchdog records
NextWatchdogControl ==
    \/ Tick
    \/ \E s \in Heartbeaters : system_service_heartbeat(s)
    \/ \E s \in ServiceIds, c \in WdConfigs : watchdog_register_service(s, c)
    \/ \E s \in ServiceIds : watchdog_enable_service(s)
    \/ \E s \in ServiceIds : watchdog_disable_service(s)

SpecWatchdogControl == InitWatchdog /\ [][NextWatchdogControl]_vars

\* One task sending sync requests, async requests from the others, two
\* tasks answering, and cancellations
NextRequests ==
    \/ \E posted \in BOOLEAN : request_send_async(posted)
    \/ \E posted \in BOOLEAN : sync_send(posted)
    \/ sync_wake
    \/ sync_timeout
    \/ sync_expire
    \/ \E r \in RequestIds : request_cancel(r)
    \/ \E p \in Responders, r \in RequestIds : resp_lookup(p, r)
    \/ \E p \in Responders : resp_callback(p)
    \/ \E p \in Responders, got \in BOOLEAN : resp_finish(p, got)
    \/ \E p \in Responders : resp_signal(p)

SpecRequests == Init /\ [][NextRequests]_vars

(* ------------------------------------------------------------------ *)
(* Properties                                                           *)
(* ------------------------------------------------------------------ *)
Takes(d) == dpc[d] = "scan" /\ dpc'[d] = "lock"
Invokes(d) == dpc[d] = "call" /\ dpc'[d] = "relock"

\* C1: once system_service_unregister(id) has returned, the dispatcher
\* never again invokes a handler that id installed
C1_NoHandlerAfterUnregister ==
    [][\A d \in Dispatchers : Invokes(d) => ~dsub[d].stale]_vars

\* C2: of two events posted one after the other by the same task with the
\* same priority, a subscriber is never handed the later one before the
\* earlier one
C2_FifoWithinPriority ==
    [][\A d \in Dispatchers :
          Invokes(d) =>
             seen[dsub[d].subscriber_id][dev[d].priority] <= dev[d].id]_vars

\* C3: the consumer never receives an event while an event of a higher
\* priority that was posted before it is waiting in the queue
C3_HigherPostedFirstReceivedFirst ==
    [][\A d \in Dispatchers :
          Takes(d) =>
             ~ \E p \in Priorities :
                  /\ p > dev'[d].priority
                  /\ \E k \in 1 .. Len(queues[p]) :
                        queues[p][k].id < dev'[d].id]_vars

\* C4: of two events of different priorities enqueued in the same idle
\* period of the dispatcher, the lower one is never taken for delivery
\* while the higher one waits, whichever was posted first
C4_HigherFirstAfterIdle ==
    [][\A d \in Dispatchers :
          Takes(d) =>
             LET q == priority_order[dscan[d]]
             IN  Head(queues[q]).fresh =>
                    ~ \E p \in Priorities :
                         /\ p > q
                         /\ \E k \in 1 .. Len(queues[p]) :
                               queues[p][k].fresh]_vars

\* C5: no event is taken from the priority queue while the handlers of an
\* earlier dequeued event have not all completed, after any sequence of
\* start, stop and post calls
C5_OneEventAtATime ==
    Cardinality({d \in Dispatchers : dev[d] # NoEvent}) <= 1

Passed(d) ==
    {i \in SubSlots : i < di[d] \/ (i = di[d] /\ dpc[d] = "relock")}

LiveWalk(d) ==
    InDispatch(d) =>
       /\ ddone[d] \subseteq
             Passed(d) \cup (IF dpc[d] = "loop" THEN {} ELSE {di[d]})
       /\ \A i \in Passed(d) \ dtouched[d] :
             /\ i \in ddone[d] <=> i \in dsnap[d]
             /\ i \in ddone[d] <=>
                   (subscriptions[i].active
                    /\ subscriptions[i].event_type = dev[d].event_type)

C7_EverySubscriberInvoked ==
    [][\A d \in Dispatchers :
          (dpc[d] = "relock" /\ dpc'[d] = "check") =>
             Matching(di[d] + 1, dev[d].event_type) = {}]_vars

\* C8: a CRITICAL event is either refused with an error returned to the
\* poster and the high-overflow counter incremented, or, once dequeued,
\* dispatched to the subscribers of its type
C8_CriticalNeverSilentlyDropped ==
    [][/\ \A d \in Dispatchers :
             (dpc[d] = "lock"
              /\ dev[d].priority = SYSTEM_EVENT_PRIORITY_CRITICAL) =>
                dpc'[d] \in {"lock", "loop"}
       /\ \A t \in Posters :
             (ppc[t] = "overflow" /\ ppc'[t] = "idle"
              /\ pev[t].priority = SYSTEM_EVENT_PRIORITY_CRITICAL) =>
                /\ pret'[t] = "ESP_ERR_TIMEOUT"
                /\ stats'.high_priority_overflows =
                      stats.high_priority_overflows + 1]_vars

InOverflow(t) ==
    /\ ppc[t] \in {"overflow", "retry"}
    /\ pev[t].priority = SYSTEM_EVENT_PRIORITY_LOW

\* C9 as stated: a LOW post that found the LOW queue full ends with the
\* new event admitted
C9_FullLowAdmitsNew ==
    [][\A t \in Posters :
          (InOverflow(t) /\ ppc'[t] = "idle") => pret'[t] = "ESP_OK"]_vars

\* C9 amended: a LOW post that found the LOW queue full evicts at most one
\* event, the oldest LOW event of that moment; it admits the new event at
\* the tail when the retry finds room, and is refused otherwise (also
\* without eviction when the queue has been emptied or pq->mutex is busy)
C9_EvictsOldestAtMostOnce ==
    [][\A t \in Posters :
          LET low == SYSTEM_EVENT_PRIORITY_LOW
          IN  InOverflow(t) =>
                /\ (ppc[t] = "overflow" /\ ppc'[t] = "retry") =>
                      /\ queues[low] # << >>
                      /\ queues'[low] = Tail(queues[low])
                      /\ stats'.low_priority_drops =
                            stats.low_priority_drops + 1
                /\ (ppc[t] = "overflow" /\ ppc'[t] = "idle") =>
                      /\ queues' = queues
                      /\ pret'[t] = "ESP_ERR_TIMEOUT"
                /\ (ppc[t] = "retry" /\ ppc'[t] # "retry") =>
                      /\ ppc'[t] = "idle"
                      /\ stats' = stats
                      /\ \/ /\ pret'[t] = "ESP_OK"
                            /\ Len(queues'[low]) = Len(queues[low]) + 1
                            /\ queues'[low][Len(queues'[low])].id = pev[t].id
                            /\ SubSeq(queues'[low], 1, Len(queues[low]))
                                  = queues[low]
                         \/ /\ pret'[t] = "ESP_ERR_TIMEOUT"
                            /\ queues' = queues
                            /\ ~HasRoom(low)]_vars

\* a poster has evicted the oldest event of a full LOW queue and is about
\* to retry
C9_Witness ==
    \E t \in Posters :
       /\ ppc[t] = "retry"
       /\ Len(queues[SYSTEM_EVENT_PRIORITY_LOW]) = LowQueueSize - 1
       /\ stats.low_priority_drops = 1

InFlight(id) ==
    \/ \E t \in Posters : ppc[t] # "idle" /\ pev[t].id = id
    \/ \E p \in Priorities : \E k \in 1 .. Len(queues[p]) : queues[p][k].id = id
    \/ \E d \in Dispatchers : dev[d].id = id

\* C10: the payload of a posted event is freed exactly once, when the
\* event leaves the runtime (dispatched, dropped by the overflow policy or
\* refused), and not before
C10_FreedExactlyOnce ==
    \A id \in 1 .. total_events_posted :
       frees[id] = IF InFlight(id) THEN 0 ELSE 1

\* C11: of two accepted events waiting in the same queue, the one enqueued
\* earlier carries the strictly smaller sequence number
C11_SequenceFollowsEnqueue ==
    \A p \in Priorities :
       \A j, k \in 1 .. Len(queues[p]) :
          j < k => queues[p][j].sequence_number < queues[p][k].sequence_number

\* C12: a principal with event-rate limit Q has at most Q of its posts
\* accepted within one window
C12_AtMostQPerWindow ==
    \A i \in ServiceIds :
       quota[i].active =>
          accepted[quota[i].service_id] <= quota[i].max_events_per_sec

\* C18: when unregister(id) returns, no quota entry of id remains
C18_QuotaDestroyedWithPrincipal ==
    [][\A id \in ServiceIds :
          (services[id].registered /\ ~services'[id].registered)
             => find_entry(id)' = {}]_vars

\* C13: a monitored principal that heartbeats every T/2 is never flagged as
\* timed out
C13_HeartbeaterNeverFlagged ==
    \A i \in ServiceIds :
       (wd[i].active /\ wd[i].service_id \in Heartbeaters)
          => ~wd[i].timeout_detected

\* the watchdog is inside restart_service for entry i
Restarting(i) == wpc \in {"restart", "info"} /\ wi = i

\* C14: a non-critical auto-restart record with N > 0 whose principal never
\* heartbeats gets no more than N restart attempts and is left latched only
\* after the N-th
C14_ExactlyNRestarts ==
    \A i \in ServiceIds :
       (/\ wd[i].active
        /\ wd[i].service_id \notin Heartbeaters
        /\ ~wd[i].config.is_critical
        /\ wd[i].config.auto_restart
        /\ wd[i].config.max_restart_attempts > 0)
          => /\ wd[i].restart_attempts <= wd[i].config.max_restart_attempts
             /\ (wd[i].timeout_detected /\ ~Restarting(i))
                   => wd[i].restart_attempts
                         = wd[i].config.max_restart_attempts

\* C15: once safe mode is entered, the watchdog restarts nobody
C15_NoRestartInSafeMode ==
    [][safe_mode => wdStats'.total_restarts = wdStats.total_restarts]_vars

\* C20: no task acquires the system lock while it holds a component lock
C20_SystemLockFirst ==
    [][\A t \in {WdTask} :
          (sysLock # t /\ sysLock' = t) => wdMutex # t]_vars

\* C16: every active subscription references an occupied registry slot and
\* a registered event type
C16_SubscriptionsReferenceLiveEntries ==
    \A i \in SubSlots :
       subscriptions[i].active =>
          /\ services[subscriptions[i].service_id].registered
          /\ event_types[subscriptions[i].event_type].registered

\* one subscription is active while service 1, which had subscribed into
\* another slot, is no longer registered
C16_Witness ==
    \E i, j \in SubSlots :
       /\ subscriptions[i].active
       /\ ~subscriptions[j].active
       /\ subscriptions[j].service_id = 1
       /\ ~services[1].registered

\* the event types the tracker lists for a principal
TrackedTypes(id) ==
    IF find_tracker(id) = {} THEN {}
    ELSE LET q == trackers[Min(find_tracker(id))].event_types
         IN  {q[k] : k \in 1 .. Len(q)}

\* the event types a principal has an active subscription for
SubscribedTypes(id) == {subscriptions[i].event_type : i \in OwnedSlots(id)}

\* C17: between calls, the tracker's list of each principal equals the set
\* of event types of its active subscriptions
C17_TrackerInLockstep ==
    \A id \in ServiceIds : TrackedTypes(id) = SubscribedTypes(id)

\* C19: a dispatcher that is invoking a handler holds none of the core locks
C19_NoLockDuringHandler ==
    \A d \in Dispatchers :
       dpc[d] = "call" =>
          /\ sysLock # d
          /\ pqMutex # d
          /\ wdMutex # d

\* a handler is being invoked and a subscription call has rewritten the
\* table since the event was taken
C19_Witness ==
    \E d \in Dispatchers : dpc[d] = "call" /\ dtouched[d] # {}

\* C21: after system_service_stop has returned and until the next
\* system_service_start, no dispatcher takes an event from the priority
\* queue and no dispatcher invokes a handler
C21_NothingDispatchedWhileStopped ==
    [][~running => \A d \in Dispatchers : ~Takes(d) /\ ~Invokes(d)]_vars

\* C22: the wait of a dispatcher on the empty priority queue is interrupted
\* by the stop: once the runtime is stopped, a dispatcher that finds every
\* queue empty does not go into another round of polling
C22_StopInterruptsWait ==
    [][\A d \in Dispatchers :
          (~running /\ (\A p \in Priorities : queues[p] = << >>)
                    /\ dpc[d] = "delay")
             => dpc'[d] # "scan"]_vars

\* C23: at every moment at most one dispatcher task exists that consumes
\* from the priority queue, after any sequence of start and stop calls
C23_AtMostOneDispatcher ==
    Cardinality({d \in Dispatchers : dpc[d] # "none"}) <= 1

\* C24: a dependencies_add call that returns
\* ESP_ERR_SERVICE_CIRCULAR_DEPENDENCY leaves the entries of the graph,
\* their dependencies and their initialized marks as they were
C24_RejectedAddLeavesGraph ==
    [][(dep_call'.op = "add"
        /\ dep_call'.ret = "ESP_ERR_SERVICE_CIRCULAR_DEPENDENCY")
          => dep_entries' = dep_entries]_vars

\* the positions of a name in the order last returned
Positions(name) ==
    {k \in 1 .. Len(dep_call.order) : dep_call.order[k] = name}

Declared(name) ==
    LET e == dep_find_entry(dep_entries, name)
    IN  IF e = 0 THEN {}
        ELSE {dep_entries[e].depends_on[i] :
                 i \in 1 .. Len(dep_entries[e].depends_on)}

\* C26: dependencies_check_ready(name) returns ESP_OK exactly when
\* dependencies_mark_initialized has been called for every dependency
\* declared for the name
C26_ReadyIffDependenciesMarked ==
    dep_call.op = "check_ready" =>
       (dep_call.ret = "ESP_OK" <=> Declared(dep_call.name) \subseteq dep_marked)

\* the blocks met on the free list of the pool
RECURSIVE Walk(_, _)
Walk(b, n) ==
    IF b = 0 \/ n = 0 THEN {} ELSE {b} \cup Walk(pool_next[b], n - 1)

OnFreeList == Walk(pool_free_list, PoolBlocks)

\* C27: a memory_pool_free of a block that is already on the free list of
\* its pool is not admitted: the free list and the blocks_used and
\* blocks_free counters stay as they were
C27_NoDoubleFree ==
    [][(pool_call'.op = "free" /\ pool_call'.ptr \in OnFreeList)
          => /\ pool_free_list' = pool_free_list
             /\ pool_next' = pool_next
             /\ pool_stats'.blocks_used = pool_stats.blocks_used
             /\ pool_stats'.blocks_free = pool_stats.blocks_free]_vars

\* C28 as stated: system_event_subscribe for a pair that is already
\* subscribed returns ESP_OK and leaves the subscription table and the
\* subscription count as they were
C28_DuplicateSubscribeSucceeds ==
    \A s \in ServiceIds, t \in EventTypeIds, got \in BOOLEAN :
       Subscribed(s, t) # {} =>
          /\ subscribe_result(s, t, got).ret = "ESP_OK"
          /\ subscribe_result(s, t, got).subscriptions = subscriptions
          /\ subscribe_result(s, t, got).subscription_count
                = subscription_count

\* the subscription quota of s is used up
QuotaReached(s) ==
    /\ find_entry(s) # {}
    /\ quota[Min(find_entry(s))].active_subscriptions
          >= quota[Min(find_entry(s))].max_subscriptions

\* C28 amended: system_event_subscribe for a pair that is already subscribed
\* leaves the subscription table and the subscription count as they were; it
\* returns ESP_OK unless the quota check that precedes the lookup refuses the
\* call, which it does only when the subscription quota of the service is
\* used up
C28_DuplicateSubscribeLeavesTable ==
    \A s \in ServiceIds, t \in EventTypeIds, got \in BOOLEAN :
       Subscribed(s, t) # {} =>
          /\ subscribe_result(s, t, got).subscriptions = subscriptions
          /\ subscribe_result(s, t, got).subscription_count
                = subscription_count
          /\ \/ subscribe_result(s, t, got).ret = "ESP_OK"
             \/ /\ subscribe_result(s, t, got).ret
                      = "ESP_ERR_QUOTA_SUBSCRIPTIONS_EXCEEDED"
                /\ QuotaReached(s)
          /\ ~QuotaReached(s) => subscribe_result(s, t, got).ret = "ESP_OK"

\* a subscription recorded in a quota entry that it uses up
C28_Witness ==
    \E s \in ServiceIds, t \in EventTypeIds :
       /\ Subscribed(s, t) # {}
       /\ QuotaReached(s)
       /\ quota[Min(find_entry(s))].active_subscriptions > 0

\* C29: for every name, a second system_event_register_type of the name
\* returns the id the first one returned and leaves event_type_count and
\* the descriptors as the first one left them
C29_SameIdTwice ==
    \A n \in EventNameArgs :
       LET first == register_type_result(event_types, event_type_count, n)
           second == register_type_result(first.event_types,
                                          first.event_type_count, n)
       IN  first.ret = "ESP_OK" =>
              /\ second.ret = "ESP_OK"
              /\ second.id = first.id
              /\ second.event_type_count = first.event_type_count
              /\ second.event_types = first.event_types

\* C30: system_service_register accepts a name only if it is not empty,
\* shorter than SYSTEM_SERVICE_MAX_NAME_LEN and not the name of a registered
\* service, and no two registered services have the same name
C30_NamesValidAndUnique ==
    /\ \A n \in ServiceNameArgs :
          register_result(services, service_count, n).ret = "ESP_OK" =>
             /\ n # ""
             /\ Len(n) < SYSTEM_SERVICE_MAX_NAME_LEN
             /\ \A s \in ServiceIds :
                   services[s].registered => services[s].name # n
    /\ \A s \in ServiceIds, r \in ServiceIds :
          (s # r /\ services[s].registered /\ services[r].registered)
             => services[s].name # services[r].name

\* C31: the state of a slot leaves UNREGISTERED only when
\* system_service_register takes the slot, never by system_service_set_state
C31_OnlyRegisterLeavesUnregistered ==
    [][\A s \in ServiceIds :
          (services[s].state = "UNREGISTERED"
           /\ services'[s].state # "UNREGISTERED")
             => (~services[s].registered /\ services'[s].registered)]_vars

\* the regions a handle points to
HandleRegions(a) ==
    {a.code_segment, a.data_segment, a.bss_segment, a.psram_data_buf} \ {0}

\* C32: an unload that follows a successful load leaves every region that
\* load allocated released exactly once, and an unload that follows an
\* unload releases and unmaps nothing
C32_UnloadReversesLoad ==
    ldr_call.op = "unload" =>
       /\ (ldr_call.prev.op = "load" /\ ldr_call.prev.ret = "ESP_OK")
             => /\ \A r \in ldr_made : ldr_freed[r] = 1 /\ r \notin ldr_heap
                /\ ldr_call.released \subseteq ldr_made
       /\ ldr_call.prev.op = "unload"
             => ldr_call.released = {} /\ ldr_call.unmapped = 0

\* the handle of an image with all three sections, unloaded twice
C32_Witness ==
    /\ ldr_call.op = "unload" /\ ldr_call.prev.op = "unload"
    /\ Cardinality(ldr_made) = 3
    /\ \A r \in ldr_made : ldr_freed[r] = 1

\* C33: after a load that returned an error every region that load
\* allocated has been released exactly once and the handle points to none
\* of them, and the unload that follows releases none of them
C33_FailedLoadUnwinds ==
    /\ (ldr_call.op = "load" /\ ldr_call.ret # "ESP_OK")
          => /\ \A r \in ldr_made : ldr_freed[r] = 1 /\ r \notin ldr_heap
             /\ HandleRegions(loaded_app) \cap ldr_made = {}
    /\ (ldr_call.op = "unload" /\ ldr_call.prev.op = "load"
           /\ ldr_call.prev.ret # "ESP_OK")
          => ldr_call.released \cap ldr_made = {}

\* C34: when restart_service returns ESP_OK to watchdog_task (no failed
\* restart is counted), the record it scanned has its timeout latch cleared
\* and its restart_attempts back at zero
C34_RestartSuccessResets ==
    [][(wpc = "info" /\ wdStats'.failed_restarts = wdStats.failed_restarts)
          => /\ ~wd'[wi].timeout_detected
             /\ wd'[wi].restart_attempts = 0]_vars

\* C35: system_event_post goes past quota_check_event_post for a sender
\* with a quota entry only after the check was made and passed: the entry
\* is below its limit.  A failed take of the quota mutex admits nothing
C35_NoAdmissionWithoutCheck ==
    [][\A t \in Posters :
          (ppc[t] = "idle" /\ ppc'[t] = "admitted")
             => \E i \in find_entry(psender'[t]) :
                   quota[i].events_this_sec < quota[i].max_events_per_sec]_vars

\* the subscription slots a principal holds
Held(subs, id) == {i \in SubSlots : subs[i].active /\ subs[i].service_id = id}

\* C36: a step that gives a principal with a quota entry one more active
\* subscription starts where the principal holds fewer than its
\* max_subscriptions
C36_SubscriptionsWithinLimit ==
    [][\A id \in ServiceIds :
          (/\ find_entry(id) # {}
           /\ Cardinality(Held(subscriptions', id))
                 > Cardinality(Held(subscriptions, id)))
             => \A i \in find_entry(id) :
                   Cardinality(Held(subscriptions, id))
                      < quota[i].max_subscriptions]_vars
\* C37: a context stops being valid only in a step that leaves its
\* refcount at zero and that it entered marked for deletion or that is
\* app_context_mark_for_deletion itself; and no valid context stays marked
\* for deletion with a refcount of zero
C37_DeletedWhenMarkedAndUnreferenced ==
    [][\A i \in ServiceIds :
          /\ (g_contexts[i].valid /\ ~g_contexts'[i].valid)
                => /\ g_contexts'[i].refcount = 0
                   /\ \/ g_contexts[i].marked_for_deletion
                      \/ /\ ctx_call'.op = "mark_for_deletion"
                         /\ ctx_call'.service_id = g_contexts[i].service_id
                         /\ g_contexts[i].refcount = 0
          /\ (g_contexts'[i].valid /\ g_contexts'[i].marked_for_deletion)
                => g_contexts'[i].refcount > 0]_vars

\* a marked context was deleted by the release of its last reference
C37_Witness ==
    /\ ctx_call.op = "release"
    /\ find_context(g_contexts, ctx_call.service_id) = {}

\* C38: once watchdog_disable_service(id) has switched the record of id
\* off, watchdog_enable_service(id) returns ESP_OK
C38_EnableAfterDisable ==
    [][\A id \in ServiceIds :
          (\E i \in ServiceIds :
              wd[i].active /\ wd[i].service_id = id /\ ~wd'[i].active)
             => watchdog_enable_result(wd', id) = "ESP_OK"]_vars

\* C39: a request_send_response that begins when its request has already
\* been answered, has timed out or was cancelled gets no further than the
\* look-up: it neither copies into the requester's buffer and goes on to
\* the semaphore nor invokes the callback
C39_CompletedAtMostOnce ==
    \A p \in Responders :
       rs_pc[p].late => rs_pc[p].pc \notin {"signal", "finish"}

\* C40: dependencies_get_init_order(order, max_count, &count) writes at
\* most max_count entries and stores a count of at most max_count
C40_OrderWithinMaxCount ==
    dep_call.op = "get_init_order" =>
       Len(dep_call.order) <= dep_call.max_count

============================================================================
